---- MODULE Spec2Model ----
(***************************************************************************)
(* Closed-loop pointer control of vision-gpt-control:                      *)
(*   - FlowController's task scheduler (controllers/flow_controller.py),   *)
(*   - Mouse and its keep-alive thread (computer/mouse.py),                *)
(*   - NLPMouseController.execute_command                                  *)
(*     (controllers/nlp_mouse_controller.py) with the command checks of    *)
(*     CommandFormatterAgent (agents/command_formatter.py).                *)
(* Each component has its own specification over the shared variables;    *)
(* the variables of the other components stay as Init left them.           *)
(***************************************************************************)
EXTENDS Integers, Sequences, FiniteSets, TLC

VARIABLES
    \* ---- FlowController (scheduler) ----
    task_queue,         \* self.task_queue: tasks in the order add_task appended them
    queue_lock,         \* self.queue_lock: "free" or "worker"
    total_tasks,        \* self.total_tasks
    shutdown_event,     \* self.shutdown_event.is_set()
    task_thread,        \* self.task_thread: "none" until run_tasks creates the thread
    dead_letter_queue,  \* self.dead_letter_queue
    tasks_processed,    \* self.metrics['tasks_processed']
    tasks_failed,       \* self.metrics['tasks_failed']
    wpc,                \* where the worker thread stands in _task_worker
    task,               \* _task_worker's local `task` (0: none yet)
    retries,            \* process_task_with_retries's local `retries`
    jpc,                \* where a caller of wait_for_completion stands
    \* history of the scheduler, written only, never read by an action's guard
    attempts,           \* outcomes of the process_task calls made for `task`
    delays,             \* the backoff sleeps made for `task`, in order
    dequeued,           \* every task popped by the worker, in pop order
    terminal,           \* <<task, terminal outcome, total_tasks then>>, in order
    popsAfterShutdown,  \* pops made while shutdown_event was already set
    wpcAtShutdown,      \* wpc at the moment shutdown() was called ("" before)
    \* ---- Mouse and the external surface ----
    position,           \* Mouse._position = current_position = browser_position
    surf_pos,           \* the surface's own cursor position
    surface,            \* "reliable": every primitive succeeds; "faulty": it may
                        \* not; "bare": the target has none of the primitives
    mpc,                \* where the thread inside Mouse.move_to / Mouse.click stands
    mtarget,            \* move_to: (x, y) after clamping
    mpos,               \* move_to: start_pos; click: current_pos
    mi,                 \* move_to: index of the next waypoint of `path`
    mbutton,            \* click: button
    mdouble,            \* click: double
    mpresses,           \* click: presses the surface has accepted in this call
    mret,               \* what the last Mouse call returned
    callno,             \* number of the Mouse call being made by the caller
    kpc,                \* where the keep-alive thread stands in _keep_alive
    kpos,               \* the current_position the keep-alive thread read
    pings,              \* keep-alive rounds left in this run
    script,             \* the Mouse calls the calling thread makes, in order
    \* history of the surface
    tracing,            \* whether this run records surface_log
    surface_log,        \* the calling thread's surface calls that succeeded
    clicks,             \* click primitives the surface accepted
    mfaults,            \* surface calls of the Mouse call in progress that
                        \* returned False or raised: <<primitive, outcome>>
    \* ---- NLPMouseController.execute_command ----
    epc,                \* where the thread inside execute_command stands
    command,            \* execute_command's `command`
    retry_attempts,     \* execute_command's `retry_attempts`
    parsed,             \* <<x, y, action>> after parsing and clamping
    result,             \* how execute_command ended: "true", "false", "raised"
    \* history of execute_command
    given,              \* the command execute_command was called with
    replies,            \* what _regenerate_command returned, call by call
    moveCalls,          \* calls of mouse.move_to made by execute_command
    executed,           \* the commands for which mouse.move_to was called
    \* ---- history of the calls that leave the program ----
    ext_calls,          \* <<callee, locks the calling thread held>>
    \* ---- BrowserController ----
    viewport_width,     \* self.viewport_width
    viewport_height,    \* self.viewport_height
    screenshot_width,   \* self.screenshot_width
    screenshot_height,  \* self.screenshot_height
    conv_in,            \* the <<x, y>> normalize_coordinates was first called with
    conv_dir,           \* from_screenshot of that call
    conv_out,           \* what the calls made so far returned, call by call
    \* ---- MouseControllerHelper, TaskManager and the element functions ----
    gpc,                \* where the thread inside an element function stands
    gfun,               \* the element function that is running
    attempt,            \* `attempt` of its `for attempt in range(max_attempts)`
    gxy,                \* the coordinates of this attempt
    confidence,         \* what verify_mouse_position returned in this attempt
    gresult,            \* how the element function ended
    gate_log,           \* history: what the browser was asked to do, in order
    response,           \* the oracle's latest reply
    completion,         \* how verify_task_completion ended on that reply
    movement_history,   \* MouseControllerHelper.movement_history
    hist_before,        \* history: movement_history before the latest operation
    hist_op,            \* history: the latest operation on the helper
    \* ---- CommandFormatterAgent.format_command on its own ----
    fmt_in,             \* the string format_command is called with
    fmt_parts,          \* history: the pieces fmt_in was put together from
    fmt_out,            \* what the call returned and logged
    \* ---- TextAgent.generate_command and ErrorController.handle_error ----
    gen_stack,          \* the generate_command calls in progress, outermost first
    gen_calls,          \* how many times the oracle (complete_task) was asked
    gen_result,         \* what the outermost generate_command returned
    gen_log,            \* history: the oracle's replies, in order
    \* ---- a second worker thread, from a second run_tasks() ----
    w2pc,               \* where the second worker is
    task2,              \* the task it popped
    retries2,           \* `retries` of its process_task_with_retries
    \* ---- Mouse.move_to's third argument ----
    msmooth,            \* move_to: smooth
    \* ---- BrowserController's pointer ----
    last_mouse_position,  \* self.last_mouse_position (<<>>: None)
    pointer,            \* where the browser's pointer is
    click_log,          \* history: <<(x, y) of click_at, pointer at the click>>
    \* ---- ErrorController.handle_error on its own ----
    ec,                 \* the ErrorController: max_retries, initial_retry_delay,
                        \* backoff_factor
    hcallback,          \* whether a retry_callback is given
    hpc,                \* where the thread inside handle_error stands
    hattempt,           \* `attempt` of its for loop
    hdelay,             \* `delay`
    hret,               \* what handle_error returned
    hsleeps,            \* history: the time.sleep calls, in order
    houtcomes,          \* history: how each retry_callback() call ended
    \* ---- retry_task of tests/test_continue_in_browser.py ----
    rt_pc,              \* where the thread inside the innermost retry_task stands
    rt_depth,           \* how many retry_task calls are in progress
    rt_history,         \* `history`: the positions recorded in it, in order
    rt_attempts,        \* history: how each execute_command call ended
    \* ---- TaskManager.run_tasks ----
    tm_completed,       \* task.completed of self.tasks, in list order
    current_task_index, \* self.current_task_index
    tm_pc,              \* where the thread inside run_tasks stands
    tm_max,             \* run_tasks's argument max_retries
    tm_retries,         \* its local `retries`
    tm_task,            \* its local `current_task`, as a position in the list
    tm_ret,             \* what run_tasks returned
    tm_runs,            \* how many times run_tasks was called
    tm_executions,      \* history: execute_current_task calls of this run, per task
    tm_log,             \* history of this run: <<index of the task, call, outcome>>
    \* ---- FlowController's metrics ----
    average_processing_time,  \* self.metrics['average_processing_time'], a fraction
    timed,              \* history: the times handed to _update_metrics, in order
    \* ---- Mouse.stop ----
    active,             \* self.active, the flag the keep-alive loop tests
    spc,                \* where the thread that calls stop() stands
    after_stop          \* history: target.move_mouse calls begun after stop()
                        \* cleared the flag

schedVars == <<task_queue, queue_lock, total_tasks, shutdown_event, task_thread,
               dead_letter_queue, tasks_processed, tasks_failed, wpc, task,
               retries, jpc, attempts, delays, dequeued, terminal,
               popsAfterShutdown, wpcAtShutdown>>

mouseVars == <<position, surf_pos, surface, mpc, mtarget, mpos, mi, mbutton,
               mdouble, mpresses, mret, callno, kpc, kpos, pings, script,
               tracing, surface_log, clicks, mfaults>>

execVars == <<epc, command, retry_attempts, parsed, result, given, replies,
              moveCalls, executed>>

browserVars == <<viewport_width, viewport_height, screenshot_width,
                 screenshot_height, conv_in, conv_dir, conv_out>>

gateVars == <<gpc, gfun, attempt, gxy, confidence, gresult, gate_log, response,
              completion, movement_history, hist_before, hist_op>>

fmtVars == <<fmt_in, fmt_parts, fmt_out>>

agentVars == <<gen_stack, gen_calls, gen_result, gen_log>>

poolVars == <<w2pc, task2, retries2>>

moveVars == <<msmooth>>

pointerVars == <<last_mouse_position, pointer, click_log>>

\* the variables move_to's callers leave alone
handleVars == <<ec, hcallback, hpc, hattempt, hdelay, hret, hsleeps, houtcomes>>

retryVars == <<rt_pc, rt_depth, rt_history, rt_attempts>>

managerVars == <<tm_completed, current_task_index, tm_pc, tm_max, tm_retries,
                 tm_task, tm_ret, tm_runs, tm_executions, tm_log>>

metricVars == <<average_processing_time, timed>>

stopVars == <<active, spc, after_stop>>

restButMove == <<pointerVars, handleVars, retryVars, managerVars, metricVars>>

\* what the actions of one component leave alone, besides the variables of
\* the scheduler, the mouse, execute_command and the components above
othersOfPointer == <<moveVars, stopVars, handleVars, retryVars, managerVars, metricVars>>
othersOfHandle == <<moveVars, stopVars, pointerVars, retryVars, managerVars, metricVars>>
othersOfRetry == <<moveVars, stopVars, pointerVars, handleVars, managerVars, metricVars>>
othersOfManager == <<moveVars, stopVars, pointerVars, handleVars, retryVars, metricVars>>
othersOfMetrics == <<moveVars, stopVars, pointerVars, handleVars, retryVars, managerVars>>

restVars == <<moveVars, stopVars, restButMove>>

vars == <<schedVars, mouseVars, execVars, ext_calls, browserVars, gateVars,
          fmtVars, agentVars, poolVars, restVars>>

\* The locks a thread holds inside `with self.position_lock:` and outside it.
PositionLockHeld == {"position_lock"}
NoLockHeld == {}

\* The locks the worker thread holds.
WorkerHolds == IF queue_lock = "worker" THEN {"queue_lock"} ELSE {}

\* A thread calls `callee` (of the surface, of the oracle, or the processing
\* of a task) while it holds the locks `held`.
Calling(callee, held) == ext_calls \cup {<<callee, held>>}

(***************************************************************************)
(*                         FlowController: scheduler                       *)
(***************************************************************************)

\* Bound of the model: how many tasks the callers add in one run.
MaxTasks == 3

\* flow_controller.py:37 and :38
MAX_RETRIES == 3
retry_delay == 2

\* What one call of process_task can do (flow_controller.py:135-177): return,
\* raise TaskProcessingError (lines 153, 158), or let any other exception of a
\* collaborator through (the re-raise of line 177).
Outcomes == {"ok", "tpe", "exc"}

\* every exception caught by the retry loop
AnyException(o) == o # "ok"

\* `except TaskProcessingError` of process_task_with_retries: the only
\* exception its loop catches and answers with a retry.
Retried(o) == o = "tpe"

BackoffDelayFromZero(r) == retry_delay * 2^r

\* delay = self.retry_delay * (2 ** (retries - 1)), with retries already incremented
BackoffDelay(r) == retry_delay * 2^(r - 1)

SchedInit ==
    /\ task_queue = <<>>
    /\ queue_lock = "free"
    /\ total_tasks = 0
    /\ shutdown_event = FALSE
    /\ task_thread = "none"
    /\ dead_letter_queue = <<>>
    /\ tasks_processed = 0
    /\ tasks_failed = 0
    /\ wpc = "none"
    /\ task = 0
    /\ retries = 0
    /\ jpc = "idle"
    /\ attempts = <<>>
    /\ delays = <<>>
    /\ dequeued = <<>>
    /\ terminal = <<>>
    /\ popsAfterShutdown = 0
    /\ wpcAtShutdown = ""

\* No second run_tasks() yet.

PoolInit ==
    /\ w2pc = "none"
    /\ task2 = 0
    /\ retries2 = 0

\* add_task: under queue_lock, append and count. The k-th task added is named k.
add_task ==
    /\ total_tasks < MaxTasks
    /\ queue_lock = "free"
    /\ task_queue' = Append(task_queue, total_tasks + 1)
    /\ total_tasks' = total_tasks + 1
    /\ UNCHANGED <<queue_lock, shutdown_event, task_thread, dead_letter_queue,
                   tasks_processed, tasks_failed, wpc, task, retries, jpc,
                   attempts, delays, dequeued, terminal, popsAfterShutdown,
                   wpcAtShutdown>>
    /\ UNCHANGED <<mouseVars, execVars>>
    /\ UNCHANGED <<browserVars, gateVars, fmtVars, agentVars, poolVars, restVars>>
    /\ UNCHANGED ext_calls

\* run_tasks: create and start the worker thread (called once, as main.py does).
run_tasks ==
    /\ task_thread = "none"
    /\ task_thread' = "worker"
    /\ wpc' = "loop"
    /\ UNCHANGED <<task_queue, queue_lock, total_tasks, shutdown_event,
                   dead_letter_queue, tasks_processed, tasks_failed, task,
                   retries, jpc, attempts, delays, dequeued, terminal,
                   popsAfterShutdown, wpcAtShutdown>>
    /\ UNCHANGED <<mouseVars, execVars>>
    /\ UNCHANGED <<browserVars, gateVars, fmtVars, agentVars, poolVars, restVars>>
    /\ UNCHANGED ext_calls

\* shutdown: set the event.
shutdown ==
    /\ ~shutdown_event
    /\ shutdown_event' = TRUE
    /\ wpcAtShutdown' = wpc
    /\ UNCHANGED <<task_queue, queue_lock, total_tasks, task_thread,
                   dead_letter_queue, tasks_processed, tasks_failed, wpc, task,
                   retries, jpc, attempts, delays, dequeued, terminal,
                   popsAfterShutdown>>
    /\ UNCHANGED <<mouseVars, execVars>>
    /\ UNCHANGED <<browserVars, gateVars, fmtVars, agentVars, poolVars, restVars>>
    /\ UNCHANGED ext_calls

\* wait_for_completion, the call: join only if a thread was created.
WaitCall ==
    /\ jpc = "idle"
    /\ jpc' = IF task_thread = "none" THEN "back" ELSE "join"
    /\ UNCHANGED <<task_queue, queue_lock, total_tasks, shutdown_event,
                   task_thread, dead_letter_queue, tasks_processed,
                   tasks_failed, wpc, task, retries, attempts, delays,
                   dequeued, terminal, popsAfterShutdown, wpcAtShutdown>>
    /\ UNCHANGED <<mouseVars, execVars>>
    /\ UNCHANGED <<browserVars, gateVars, fmtVars, agentVars, poolVars, restVars>>
    /\ UNCHANGED ext_calls

\* wait_for_completion, the return: task_thread.join() returns once the worker
\* has left _task_worker.
WaitReturn ==
    /\ jpc = "join"
    /\ wpc = "exit"
    /\ jpc' = "back"
    /\ UNCHANGED <<task_queue, queue_lock, total_tasks, shutdown_event,
                   task_thread, dead_letter_queue, tasks_processed,
                   tasks_failed, wpc, task, retries, attempts, delays,
                   dequeued, terminal, popsAfterShutdown, wpcAtShutdown>>
    /\ UNCHANGED <<mouseVars, execVars>>
    /\ UNCHANGED <<browserVars, gateVars, fmtVars, agentVars, poolVars, restVars>>
    /\ UNCHANGED ext_calls

\* a worker that leaves its loop once the queue is empty
LoopTargetUntilEmpty ==
    IF shutdown_event \/ task_queue = <<>> THEN "exit" ELSE "lock"

LoopTargetDraining ==
    IF shutdown_event /\ task_queue = <<>> THEN "exit" ELSE "lock"

\* The test of `while not self.shutdown_event.is_set()`: where the worker goes
\* from the top of its loop.
LoopTarget == IF shutdown_event THEN "exit" ELSE "lock"

WorkerLoop ==
    /\ wpc = "loop"
    /\ wpc' = LoopTarget
    /\ UNCHANGED <<task_queue, queue_lock, total_tasks, shutdown_event,
                   task_thread, dead_letter_queue, tasks_processed,
                   tasks_failed, task, retries, jpc, attempts, delays,
                   dequeued, terminal, popsAfterShutdown, wpcAtShutdown>>
    /\ UNCHANGED <<mouseVars, execVars>>
    /\ UNCHANGED <<browserVars, gateVars, fmtVars, agentVars, poolVars, restVars>>
    /\ UNCHANGED ext_calls

PopLast(q) == Len(q)

\* task = self.task_queue.pop(0): which element leaves the queue.
PopIndex(q) == 1

\* the queue with nothing removed
KeepAll(q, i) == q

RemoveAt(q, i) == [k \in 1..(Len(q) - 1) |-> IF k < i THEN q[k] ELSE q[k + 1]]

\* `with self.queue_lock:` with the queue empty: the worker starts its one-second
\* sleep inside the with block, so the lock stays taken.
WorkerIdle ==
    /\ wpc = "lock"
    /\ queue_lock = "free"
    /\ task_queue = <<>>
    /\ queue_lock' = "worker"
    /\ wpc' = "idle"
    /\ UNCHANGED <<task_queue, total_tasks, shutdown_event, task_thread,
                   dead_letter_queue, tasks_processed, tasks_failed, task,
                   retries, jpc, attempts, delays, dequeued, terminal,
                   popsAfterShutdown, wpcAtShutdown>>
    /\ UNCHANGED <<mouseVars, execVars>>
    /\ UNCHANGED <<browserVars, gateVars, fmtVars, agentVars, poolVars, restVars>>
    /\ UNCHANGED ext_calls

WakeWithoutTest == "lock"

\* Where the worker goes after its idle sleep: `continue`, to the loop test.
WakeTarget == "loop"

\* The sleep is over: `continue` leaves the with block and releases the lock.
WorkerWake ==
    /\ wpc = "idle"
    /\ queue_lock' = "free"
    /\ wpc' = WakeTarget
    /\ UNCHANGED <<task_queue, total_tasks, shutdown_event, task_thread,
                   dead_letter_queue, tasks_processed, tasks_failed, task,
                   retries, jpc, attempts, delays, dequeued, terminal,
                   popsAfterShutdown, wpcAtShutdown>>
    /\ UNCHANGED <<mouseVars, execVars>>
    /\ UNCHANGED <<browserVars, gateVars, fmtVars, agentVars, poolVars, restVars>>
    /\ UNCHANGED ext_calls

\* `with self.queue_lock:` with the queue not empty: pop a task, release the lock
\* and enter process_task_with_retries (retries = 0).
WorkerPop ==
    /\ wpc = "lock"
    /\ queue_lock = "free"
    /\ task_queue # <<>>
    /\ task' = task_queue[PopIndex(task_queue)]
    /\ task_queue' = RemoveAt(task_queue, PopIndex(task_queue))
    /\ retries' = 0
    /\ attempts' = <<>>
    /\ delays' = <<>>
    /\ dequeued' = Append(dequeued, task')
    /\ popsAfterShutdown' = popsAfterShutdown + (IF shutdown_event THEN 1 ELSE 0)
    /\ wpc' = "run"
    /\ UNCHANGED <<queue_lock, total_tasks, shutdown_event, task_thread,
                   dead_letter_queue, tasks_processed, tasks_failed, jpc,
                   terminal, wpcAtShutdown>>
    /\ UNCHANGED <<mouseVars, execVars>>
    /\ UNCHANGED <<browserVars, gateVars, fmtVars, agentVars, poolVars, restVars>>
    /\ UNCHANGED ext_calls

ThreadDies == "exit"

\* Where the worker goes after the `except Exception` handler of _task_worker.
AfterException == "loop"

\* One pass of `while retries < self.MAX_RETRIES`: process_task is called.
\*   ok : process_task_with_retries returns; the worker updates the metrics.
\*   tpe: retries += 1, then the backoff sleep.
\*   exc: the exception leaves process_task_with_retries; the worker's
\*        `except Exception` counts a failed task and the loop goes on.
WorkerAttempt ==
    /\ wpc = "run"
    /\ retries < MAX_RETRIES
    /\ \E o \in Outcomes :
        /\ attempts' = Append(attempts, o)
        /\ CASE o = "ok" ->
                  /\ tasks_processed' = tasks_processed + 1
                  /\ terminal' = Append(terminal, <<task, "ok", total_tasks>>)
                  /\ wpc' = "loop"
                  /\ UNCHANGED <<retries, delays, tasks_failed>>
             [] Retried(o) ->
                  /\ retries' = retries + 1
                  /\ delays' = Append(delays, BackoffDelay(retries + 1))
                  /\ wpc' = "backoff"
                  /\ UNCHANGED <<tasks_processed, tasks_failed, terminal>>
             [] o # "ok" /\ ~Retried(o) ->
                  /\ tasks_failed' = tasks_failed + 1
                  /\ terminal' = Append(terminal, <<task, "exc", total_tasks>>)
                  /\ wpc' = AfterException
                  /\ UNCHANGED <<retries, delays, tasks_processed>>
    /\ UNCHANGED <<task_queue, queue_lock, total_tasks, shutdown_event,
                   task_thread, dead_letter_queue, task, jpc, dequeued,
                   popsAfterShutdown, wpcAtShutdown>>
    /\ UNCHANGED <<mouseVars, execVars>>
    /\ UNCHANGED <<browserVars, gateVars, fmtVars, agentVars, poolVars, restVars>>
    /\ ext_calls' = Calling("process_task", WorkerHolds)

\* time.sleep(delay) is over: back to the test of the retry loop.
WorkerBackoff ==
    /\ wpc = "backoff"
    /\ wpc' = "run"
    /\ UNCHANGED <<task_queue, queue_lock, total_tasks, shutdown_event,
                   task_thread, dead_letter_queue, tasks_processed,
                   tasks_failed, task, retries, jpc, attempts, delays,
                   dequeued, terminal, popsAfterShutdown, wpcAtShutdown>>
    /\ UNCHANGED <<mouseVars, execVars>>
    /\ UNCHANGED <<browserVars, gateVars, fmtVars, agentVars, poolVars, restVars>>
    /\ UNCHANGED ext_calls

\* The retry loop is exhausted: the task goes to the dead-letter list and
\* process_task_with_retries returns normally, so the worker runs its success
\* path (lines 102-105).
WorkerDeadLetter ==
    /\ wpc = "run"
    /\ retries >= MAX_RETRIES
    /\ dead_letter_queue' = Append(dead_letter_queue, task)
    /\ tasks_processed' = tasks_processed + 1
    /\ terminal' = Append(terminal, <<task, "dead", total_tasks>>)
    /\ wpc' = "loop"
    /\ UNCHANGED <<task_queue, queue_lock, total_tasks, shutdown_event,
                   task_thread, tasks_failed, task, retries, jpc, attempts,
                   delays, dequeued, popsAfterShutdown, wpcAtShutdown>>
    /\ UNCHANGED <<mouseVars, execVars>>
    /\ UNCHANGED <<browserVars, gateVars, fmtVars, agentVars, poolVars, restVars>>
    /\ UNCHANGED ext_calls

WorkerNext ==
    \/ WorkerLoop
    \/ WorkerIdle
    \/ WorkerWake
    \/ WorkerPop
    \/ WorkerAttempt
    \/ WorkerBackoff
    \/ WorkerDeadLetter

SchedNext ==
    \/ add_task
    \/ run_tasks
    \/ shutdown
    \/ WaitCall
    \/ WaitReturn
    \/ WorkerNext

(***************************************************************************)
(*                FlowController: run_tasks() called again                 *)
(***************************************************************************)

\* run_tasks a second time: nothing tests for a running thread; a second
\* thread is started on the same _task_worker and task_thread names it now.
run_tasks_again ==
    /\ task_thread = "worker"
    /\ w2pc = "none"
    /\ task_thread' = "worker2"
    /\ w2pc' = "loop"
    /\ UNCHANGED <<task2, retries2>>
    /\ UNCHANGED <<task_queue, queue_lock, total_tasks, shutdown_event,
                   dead_letter_queue, tasks_processed, tasks_failed, wpc, task,
                   retries, jpc, attempts, delays, dequeued, terminal,
                   popsAfterShutdown, wpcAtShutdown>>
    /\ UNCHANGED <<mouseVars, execVars, ext_calls, browserVars, gateVars,
                   fmtVars, agentVars, restVars>>

\* The steps of the second thread are those of the first, on its own locals.
Worker2Loop ==
    /\ w2pc = "loop"
    /\ w2pc' = LoopTarget
    /\ UNCHANGED <<task2, retries2>>
    /\ UNCHANGED schedVars
    /\ UNCHANGED <<mouseVars, execVars, ext_calls, browserVars, gateVars,
                   fmtVars, agentVars, restVars>>

Worker2Idle ==
    /\ w2pc = "lock"
    /\ queue_lock = "free"
    /\ task_queue = <<>>
    /\ queue_lock' = "worker2"
    /\ w2pc' = "idle"
    /\ UNCHANGED <<task2, retries2>>
    /\ UNCHANGED <<task_queue, total_tasks, shutdown_event, task_thread,
                   dead_letter_queue, tasks_processed, tasks_failed, wpc, task,
                   retries, jpc, attempts, delays, dequeued, terminal,
                   popsAfterShutdown, wpcAtShutdown>>
    /\ UNCHANGED <<mouseVars, execVars, ext_calls, browserVars, gateVars,
                   fmtVars, agentVars, restVars>>

Worker2Wake ==
    /\ w2pc = "idle"
    /\ queue_lock' = "free"
    /\ w2pc' = WakeTarget
    /\ UNCHANGED <<task2, retries2>>
    /\ UNCHANGED <<task_queue, total_tasks, shutdown_event, task_thread,
                   dead_letter_queue, tasks_processed, tasks_failed, wpc, task,
                   retries, jpc, attempts, delays, dequeued, terminal,
                   popsAfterShutdown, wpcAtShutdown>>
    /\ UNCHANGED <<mouseVars, execVars, ext_calls, browserVars, gateVars,
                   fmtVars, agentVars, restVars>>

Worker2Pop ==
    /\ w2pc = "lock"
    /\ queue_lock = "free"
    /\ task_queue # <<>>
    /\ task2' = task_queue[PopIndex(task_queue)]
    /\ task_queue' = RemoveAt(task_queue, PopIndex(task_queue))
    /\ retries2' = 0
    /\ dequeued' = Append(dequeued, task2')
    /\ w2pc' = "run"
    /\ UNCHANGED <<queue_lock, total_tasks, shutdown_event, task_thread,
                   dead_letter_queue, tasks_processed, tasks_failed, wpc, task,
                   retries, jpc, attempts, delays, terminal,
                   popsAfterShutdown, wpcAtShutdown>>
    /\ UNCHANGED <<mouseVars, execVars, ext_calls, browserVars, gateVars,
                   fmtVars, agentVars, restVars>>

Worker2Attempt ==
    /\ w2pc = "run"
    /\ retries2 < MAX_RETRIES
    /\ \E o \in Outcomes :
        CASE o = "ok" ->
                  /\ tasks_processed' = tasks_processed + 1
                  /\ terminal' = Append(terminal, <<task2, "ok", total_tasks>>)
                  /\ w2pc' = "loop"
                  /\ UNCHANGED <<retries2, tasks_failed>>
          [] Retried(o) ->
                  /\ retries2' = retries2 + 1
                  /\ w2pc' = "backoff"
                  /\ UNCHANGED <<tasks_processed, tasks_failed, terminal>>
          [] o # "ok" /\ ~Retried(o) ->
                  /\ tasks_failed' = tasks_failed + 1
                  /\ terminal' = Append(terminal, <<task2, "exc", total_tasks>>)
                  /\ w2pc' = AfterException
                  /\ UNCHANGED <<retries2, tasks_processed>>
    /\ UNCHANGED task2
    /\ UNCHANGED <<task_queue, queue_lock, total_tasks, shutdown_event,
                   task_thread, dead_letter_queue, wpc, task, retries, jpc,
                   attempts, delays, dequeued, popsAfterShutdown,
                   wpcAtShutdown>>
    /\ UNCHANGED <<mouseVars, execVars, browserVars, gateVars, fmtVars,
                   agentVars, restVars>>
    /\ ext_calls' = Calling("process_task", NoLockHeld)

Worker2Backoff ==
    /\ w2pc = "backoff"
    /\ w2pc' = "run"
    /\ UNCHANGED <<task2, retries2>>
    /\ UNCHANGED schedVars
    /\ UNCHANGED <<mouseVars, execVars, ext_calls, browserVars, gateVars,
                   fmtVars, agentVars, restVars>>

Worker2DeadLetter ==
    /\ w2pc = "run"
    /\ retries2 >= MAX_RETRIES
    /\ dead_letter_queue' = Append(dead_letter_queue, task2)
    /\ tasks_processed' = tasks_processed + 1
    /\ terminal' = Append(terminal, <<task2, "dead", total_tasks>>)
    /\ w2pc' = "loop"
    /\ UNCHANGED <<task2, retries2>>
    /\ UNCHANGED <<task_queue, queue_lock, total_tasks, shutdown_event,
                   task_thread, tasks_failed, wpc, task, retries, jpc,
                   attempts, delays, dequeued, popsAfterShutdown,
                   wpcAtShutdown>>
    /\ UNCHANGED <<mouseVars, execVars, ext_calls, browserVars, gateVars,
                   fmtVars, agentVars, restVars>>

Worker2Next ==
    \/ Worker2Loop
    \/ Worker2Idle
    \/ Worker2Wake
    \/ Worker2Pop
    \/ Worker2Attempt
    \/ Worker2Backoff
    \/ Worker2DeadLetter

PoolNext ==
    \/ add_task
    \/ run_tasks
    \/ run_tasks_again
    \/ shutdown
    \/ WorkerNext
    \/ Worker2Next

(***************************************************************************)
(*                    Mouse and the external surface                       *)
(***************************************************************************)

\* Bound of the model: how many rounds the keep-alive thread makes in one run.
MaxPings == 1

\* screen.py:12 and :13 (Screen.width, Screen.height)
Width == 800
Height == 600

\* mouse.py:74, steps=30
Steps == 30

\* A coordinate is a whole number of 1/Unit pixels: with Unit = steps^3 every
\* waypoint of a smoothstep path between whole pixels is exact.
Unit == Steps * Steps * Steps

Px(n) == n * Unit

\* int(v): towards zero
IntPart(v) == IF v >= 0 THEN (v \div Unit) * Unit ELSE -(((-v) \div Unit) * Unit)

IntPos(p) == <<IntPart(p[1]), IntPart(p[2])>>

\* (screen.width // 2, screen.height // 2)
Center == <<Px(Width \div 2), Px(Height \div 2)>>

Min(a, b) == IF a < b THEN a ELSE b
Max(a, b) == IF a > b THEN a ELSE b

Unclamped(p) == p

\* x = max(0, min(x, self.screen.width)); y likewise
ClampToScreen(p) == <<Max(0, Min(p[1], Px(Width))), Max(0, Min(p[2], Px(Height)))>>

\* t * t * (3 - 2 * t) for t = i / steps, as a number of 1/Unit
Smoothstep(i) == i * i * (3 * Steps - 2 * i)

\* d * n / Unit, rounded down, without leaving 32 bits
MulDiv(d, n) == (d \div Unit) * n + ((d % Unit) * n) \div Unit

\* start + (end - start) * t
Lerp(a, b, i) == a + MulDiv(b - a, Smoothstep(i))

PathOneShort(start, end) ==
    [k \in 1..Steps |->
        <<Lerp(start[1], end[1], k - 1), Lerp(start[2], end[2], k - 1)>>]

\* _generate_movement_path: the waypoints for i in range(steps + 1)
MovementPath(start, end) ==
    [k \in 1..(Steps + 1) |->
        <<Lerp(start[1], end[1], k - 1), Lerp(start[2], end[2], k - 1)>>]

\* get_mouse_position() returning nothing usable (`if browser_pos:` is false)
NoReport == <<>>

\* Where a faulty surface may report its cursor instead of where it was put:
\* the origin, or one pixel beside the point (10, 10).
DriftPositions == {<<0, 0>>, <<Px(11), Px(10)>>}

\* hasattr(self.browser, <primitive>): a bare target has none of move_mouse,
\* click_mouse and get_mouse_position.
HasPrimitives == surface # "bare"

\* What the surface answers to get_mouse_position().
Reports ==
    IF ~HasPrimitives THEN {NoReport}
    ELSE {surf_pos} \cup (IF surface = "faulty" THEN {NoReport} \cup DriftPositions
                                                ELSE {})

\* What a call of a surface primitive can do: return True, return False, raise;
\* "skipped" when the hasattr test kept the Mouse from calling it.
CallOutcomes ==
    IF ~HasPrimitives THEN {"skipped"}
    ELSE IF surface = "faulty" THEN {"ok", "fail", "raise"} ELSE {"ok"}

\* The call was made and returned True.
Accepted(o) == o = "ok"

\* Nothing stops the Mouse call: the primitive returned True or was not called.
GoesOn(o) == o \in {"ok", "skipped"}

\* The surface calls made so far, with the one of outcome o added if it was made.
CallsWith(o, primitive, locks) ==
    IF o = "skipped" THEN ext_calls ELSE Calling(primitive, locks)

\* A faulty surface refuses a waypoint only at these indexes of a path (the
\* first and the last waypoint).
FaultPoints == {1, Steps + 1}

MoveOutcomes(i) ==
    IF ~HasPrimitives \/ i \in FaultPoints THEN CallOutcomes ELSE {"ok"}

\* `path` of move_to: the smooth path, or the target alone (direct movement)
PathOf(start, end) == IF msmooth THEN MovementPath(start, end) ELSE <<end>>

\* get_position: under position_lock, take the surface's report if there is one.
SyncedPosition(r) == IF r = NoReport THEN position ELSE r

\* The surface's cursor after it answered r.
SurfaceAfterReport(r) == IF r = NoReport THEN surf_pos ELSE r

Record(e) == IF tracing THEN Append(surface_log, e) ELSE surface_log

\* The surface answered a call of `primitive` with outcome o.
Noted(primitive, o) ==
    IF GoesOn(o) THEN mfaults ELSE mfaults \cup {<<primitive, o>>}

\* The calls of the scenarios: the spec's move/click/move and
\* tests/test_mouse_movement.py's move_to(100, 100); click(button='left').
MoveCall(x, y) == [op |-> "move_to", x |-> x, y |-> y, smooth |-> TRUE]
ClickCall == [op |-> "click", button |-> "left", double |-> FALSE]
Scripts == {<<MoveCall(10, 10), ClickCall, MoveCall(20, 20)>>,
            <<MoveCall(100, 100), ClickCall>>}

\* Mouse.__init__ with the surface's cursor at the centre and nobody calling.
MouseInit ==
    /\ position = Center
    /\ mpc = "idle"
    /\ mtarget = Center
    /\ mpos = Center
    /\ mi = 0
    /\ mbutton = "left"
    /\ mdouble = FALSE
    /\ mpresses = 0
    /\ mret = "none"
    /\ callno = 0
    /\ kpc = "test"
    /\ kpos = Center
    /\ surface_log = <<>>
    /\ clicks = 0
    /\ mfaults = {}

\* The mouse of a run in which no thread uses it.
MouseQuiet ==
    /\ MouseInit
    /\ surf_pos = Center
    /\ surface = "reliable"
    /\ pings = 0
    /\ script = <<>>
    /\ tracing = FALSE

\* move_to, entry: clamp, start_pos = self.get_position(); the path runs from
\* start_pos to the clamped target.
MoveBegin ==
    /\ mpc = "m_start"
    /\ \E r \in Reports :
        /\ position' = SyncedPosition(r)
        /\ surf_pos' = SurfaceAfterReport(r)
        /\ mpos' = SyncedPosition(r)
    /\ mi' = 1
    /\ mpc' = "m_path"
    /\ UNCHANGED <<surface, mtarget, mbutton, mdouble, mpresses, mret, callno,
                   kpc, kpos, pings, script, tracing, surface_log, clicks>>
    /\ UNCHANGED <<schedVars, execVars>>
    /\ UNCHANGED mfaults
    /\ UNCHANGED <<browserVars, gateVars, fmtVars, agentVars, poolVars, restVars>>
    /\ ext_calls' = IF HasPrimitives
                    THEN Calling("get_mouse_position", PositionLockHeld)
                    ELSE ext_calls

\* move_to, one pass of `for px, py in path`: browser.move_mouse(int(px),
\* int(py)); on False or an exception move_to returns False; else the tracked
\* position becomes the waypoint, and after the last one move_to returns True.
MoveStep ==
    /\ mpc = "m_path"
    /\ LET path == PathOf(mpos, mtarget)
           wp == path[mi]
       IN  \E o \in MoveOutcomes(mi) :
             /\ mfaults' = Noted("move_mouse", o)
             /\ ext_calls' = CallsWith(o, "move_mouse", NoLockHeld)
             /\ IF GoesOn(o)
                THEN /\ surf_pos' = IF Accepted(o) THEN IntPos(wp) ELSE surf_pos
                     /\ position' = wp
                     /\ surface_log' =
                            IF Accepted(o)
                            THEN Record(<<callno, "move", IntPos(wp)>>)
                            ELSE surface_log
                     /\ IF mi = Len(path)
                        THEN mpc' = "ret" /\ mret' = "true" /\ mi' = mi
                        ELSE mpc' = "m_path" /\ mret' = mret /\ mi' = mi + 1
                ELSE /\ mpc' = "ret"
                     /\ mret' = "false"
                     /\ UNCHANGED <<surf_pos, position, surface_log, mi>>
    /\ UNCHANGED <<surface, mtarget, mpos, mbutton, mdouble, mpresses, callno,
                   kpc, kpos, pings, script, tracing, clicks>>
    /\ UNCHANGED <<schedVars, execVars>>
    /\ UNCHANGED <<browserVars, gateVars, fmtVars, agentVars, poolVars, restVars>>

\* click, entry: current_pos = self.get_position()
ClickBegin ==
    /\ mpc = "k_start"
    /\ \E r \in Reports :
        /\ position' = SyncedPosition(r)
        /\ surf_pos' = SurfaceAfterReport(r)
        /\ mpos' = SyncedPosition(r)
    /\ mpresses' = 0
    /\ mpc' = "k_sync"
    /\ UNCHANGED <<surface, mtarget, mi, mbutton, mdouble, mret, callno, kpc,
                   kpos, pings, script, tracing, surface_log, clicks>>
    /\ UNCHANGED <<schedVars, execVars>>
    /\ UNCHANGED mfaults
    /\ UNCHANGED <<browserVars, gateVars, fmtVars, agentVars, poolVars, restVars>>
    /\ ext_calls' = IF HasPrimitives
                    THEN Calling("get_mouse_position", PositionLockHeld)
                    ELSE ext_calls

\* click: self.browser.move_mouse(*current_pos), the position as it was read;
\* its result is not looked at, an exception makes click return False.
ClickSync ==
    /\ mpc = "k_sync"
    /\ \E o \in CallOutcomes :
        /\ mfaults' = Noted("move_mouse", o)
        /\ ext_calls' = CallsWith(o, "move_mouse", NoLockHeld)
        /\ CASE o = "ok" ->
                  /\ surf_pos' = mpos
                  /\ surface_log' = Record(<<callno, "move", mpos>>)
                  /\ mpc' = "k_press"
                  /\ mret' = mret
             [] o \in {"fail", "skipped"} ->
                  /\ mpc' = "k_press"
                  /\ UNCHANGED <<surf_pos, surface_log, mret>>
             [] o = "raise" ->
                  /\ mpc' = "ret"
                  /\ mret' = "false"
                  /\ UNCHANGED <<surf_pos, surface_log>>
    /\ UNCHANGED <<position, surface, mtarget, mpos, mi, mbutton, mdouble,
                   mpresses, callno, kpc, kpos, pings, script, tracing, clicks>>
    /\ UNCHANGED <<schedVars, execVars>>
    /\ UNCHANGED <<browserVars, gateVars, fmtVars, agentVars, poolVars, restVars>>

\* click: success = self.browser.click_mouse(button), a second time if double;
\* False or an exception makes click return False.
ClickPress ==
    /\ mpc = "k_press"
    /\ \E o \in CallOutcomes :
        /\ mfaults' = Noted("click_mouse", o)
        /\ ext_calls' = CallsWith(o, "click_mouse", NoLockHeld)
        /\ CASE o = "ok" ->
                  /\ clicks' = clicks + 1
                  /\ mpresses' = mpresses + 1
                  /\ surface_log' = Record(<<callno, "click", mbutton>>)
                  /\ mpc' = IF mdouble /\ mpresses = 0 THEN "k_press" ELSE "k_log"
                  /\ mret' = mret
             [] o = "skipped" ->
                  /\ mpc' = "k_log"
                  /\ UNCHANGED <<clicks, mpresses, surface_log, mret>>
             [] o \in {"fail", "raise"} ->
                  /\ mpc' = "ret"
                  /\ mret' = "false"
                  /\ UNCHANGED <<clicks, mpresses, surface_log>>
    /\ UNCHANGED <<position, surf_pos, surface, mtarget, mpos, mi, mbutton,
                   mdouble, callno, kpc, kpos, pings, script, tracing>>
    /\ UNCHANGED <<schedVars, execVars>>
    /\ UNCHANGED <<browserVars, gateVars, fmtVars, agentVars, poolVars, restVars>>

\* click, exit: the debug message evaluates self.get_position(), then
\* click returns True.
ClickEnd ==
    /\ mpc = "k_log"
    /\ \E r \in Reports :
        /\ position' = SyncedPosition(r)
        /\ surf_pos' = SurfaceAfterReport(r)
    /\ mpc' = "ret"
    /\ mret' = "true"
    /\ UNCHANGED <<surface, mtarget, mpos, mi, mbutton, mdouble, mpresses,
                   callno, kpc, kpos, pings, script, tracing, surface_log,
                   clicks>>
    /\ UNCHANGED <<schedVars, execVars>>
    /\ UNCHANGED mfaults
    /\ UNCHANGED <<browserVars, gateVars, fmtVars, agentVars, poolVars, restVars>>
    /\ ext_calls' = IF HasPrimitives
                    THEN Calling("get_mouse_position", PositionLockHeld)
                    ELSE ext_calls

MouseCallNext ==
    \/ MoveBegin
    \/ MoveStep
    \/ ClickBegin
    \/ ClickSync
    \/ ClickPress
    \/ ClickEnd

\* _keep_alive, `while self.active:` and the read of self.current_position
\* (no lock is taken) that builds the arguments of target.move_mouse.
\* A loop that never looks at the flag.
IgnoresFlag(flag) == TRUE

\* `while self.active:`
LoopGoesOn(flag) == flag

KeepAliveRead ==
    /\ kpc = "test"
    /\ LoopGoesOn(active)
    /\ pings > 0
    /\ pings' = pings - 1
    /\ kpos' = position
    /\ kpc' = "call"
    /\ UNCHANGED <<position, surf_pos, surface, mpc, mtarget, mpos, mi,
                   mbutton, mdouble, mpresses, mret, callno, script, tracing,
                   surface_log, clicks>>
    /\ UNCHANGED <<schedVars, execVars>>
    /\ UNCHANGED mfaults
    /\ UNCHANGED <<browserVars, gateVars, fmtVars, agentVars, poolVars, restVars>>
    /\ UNCHANGED ext_calls

\* _keep_alive calls self.target.move_mouse without a hasattr test: on a bare
\* target the attribute lookup raises.
KeepAliveOutcomes == IF HasPrimitives THEN CallOutcomes ELSE {"raise"}

\* _keep_alive: self.target.move_mouse(*position read), then time.sleep(30);
\* an exception is logged and the loop goes on.
KeepAliveCall ==
    /\ kpc = "call"
    /\ \E o \in KeepAliveOutcomes :
        /\ surf_pos' = IF o = "ok" THEN kpos ELSE surf_pos
        /\ kpc' = IF o = "raise" THEN "test" ELSE "sleep"
    /\ after_stop' = IF active THEN after_stop ELSE after_stop + 1
    /\ UNCHANGED <<position, surface, mpc, mtarget, mpos, mi, mbutton,
                   mdouble, mpresses, mret, callno, kpos, pings, script,
                   tracing, surface_log, clicks>>
    /\ UNCHANGED <<schedVars, execVars>>
    /\ UNCHANGED mfaults
    /\ UNCHANGED <<browserVars, gateVars, fmtVars, agentVars, poolVars>>
    /\ UNCHANGED <<moveVars, restButMove, active, spc>>
    /\ ext_calls' = IF HasPrimitives THEN Calling("move_mouse", NoLockHeld)
                                      ELSE ext_calls

\* _keep_alive: the sleep is over.
KeepAliveWake ==
    /\ kpc = "sleep"
    /\ kpc' = "test"
    /\ UNCHANGED <<position, surf_pos, surface, mpc, mtarget, mpos, mi,
                   mbutton, mdouble, mpresses, mret, callno, kpos, pings,
                   script, tracing, surface_log, clicks>>
    /\ UNCHANGED <<schedVars, execVars>>
    /\ UNCHANGED mfaults
    /\ UNCHANGED <<browserVars, gateVars, fmtVars, agentVars, poolVars, restVars>>
    /\ UNCHANGED ext_calls

\* _keep_alive: `while self.active:` finds the flag cleared, the function
\* returns and the thread ends.
KeepAliveExit ==
    /\ kpc = "test"
    /\ ~LoopGoesOn(active)
    /\ kpc' = "done"
    /\ UNCHANGED <<position, surf_pos, surface, mpc, mtarget, mpos, mi,
                   mbutton, mdouble, mpresses, mret, callno, kpos, pings,
                   script, tracing, surface_log, clicks>>
    /\ UNCHANGED <<schedVars, execVars>>
    /\ UNCHANGED mfaults
    /\ UNCHANGED <<browserVars, gateVars, fmtVars, agentVars, poolVars, restVars>>
    /\ UNCHANGED ext_calls

\* stop(), line 219: self.active = False
StopCall ==
    /\ spc = "idle"
    /\ active' = FALSE
    /\ spc' = "join"
    /\ UNCHANGED after_stop
    /\ UNCHANGED <<schedVars, mouseVars, execVars, ext_calls>>
    /\ UNCHANGED <<browserVars, gateVars, fmtVars, agentVars, poolVars>>
    /\ UNCHANGED <<moveVars, restButMove>>

\* stop(), line 220: self.keep_alive_thread.join() returns once the thread
\* has ended.
StopJoin ==
    /\ spc = "join"
    /\ kpc = "done"
    /\ spc' = "returned"
    /\ UNCHANGED <<active, after_stop>>
    /\ UNCHANGED <<schedVars, mouseVars, execVars, ext_calls>>
    /\ UNCHANGED <<browserVars, gateVars, fmtVars, agentVars, poolVars>>
    /\ UNCHANGED <<moveVars, restButMove>>

KeepAliveNext ==
    \/ KeepAliveRead
    \/ KeepAliveCall
    \/ KeepAliveWake

\* The calling thread of a scenario makes its next call: mouse.move_to(x, y)
\* (smooth by default) or mouse.click(button).
ScriptCall ==
    /\ mpc = "idle"
    /\ callno < Len(script)
    /\ callno' = callno + 1
    /\ LET c == script[callno + 1]
       IN  IF c.op = "move_to"
           THEN /\ mtarget' = ClampToScreen(<<Px(c.x), Px(c.y)>>)
                /\ mpc' = "m_start"
                /\ UNCHANGED <<mbutton, mdouble>>
           ELSE /\ mbutton' = c.button
                /\ mdouble' = c.double
                /\ mpc' = "k_start"
                /\ UNCHANGED mtarget
    /\ UNCHANGED <<position, surf_pos, surface, mpos, mi, mpresses, mret, kpc,
                   kpos, pings, script, tracing, surface_log, clicks>>
    /\ UNCHANGED <<schedVars, execVars>>
    /\ mfaults' = {}
    /\ UNCHANGED <<browserVars, gateVars, fmtVars, agentVars, poolVars>>
    /\ UNCHANGED <<stopVars, restButMove>>
    /\ msmooth' = IF script[callno + 1].op = "move_to"
                  THEN script[callno + 1].smooth ELSE msmooth
    /\ UNCHANGED ext_calls

\* The call is over; the scenarios do not look at what it returned.
ScriptReturn ==
    /\ mpc = "ret"
    /\ mpc' = "idle"
    /\ UNCHANGED <<position, surf_pos, surface, mtarget, mpos, mi, mbutton,
                   mdouble, mpresses, mret, callno, kpc, kpos, pings, script,
                   tracing, surface_log, clicks>>
    /\ UNCHANGED <<schedVars, execVars>>
    /\ UNCHANGED mfaults
    /\ UNCHANGED <<browserVars, gateVars, fmtVars, agentVars, poolVars, restVars>>
    /\ UNCHANGED ext_calls

MouseScenarioInit ==
    /\ MouseInit
    /\ surf_pos = Center
    /\ surface = "reliable"
    /\ pings = MaxPings
    /\ script \in Scripts
    /\ tracing = TRUE

\* move_to(x, y, smooth=False), as Computer.start and Mouse.initialize call it
DirectMove(x, y) == [op |-> "move_to", x |-> x, y |-> y, smooth |-> FALSE]

\* click(button, double=True)
DoubleClickCall == [op |-> "click", button |-> "left", double |-> TRUE]

\* Calls with targets on, inside and outside the screen.
ReachScripts ==
    {<<MoveCall(-5, 700), ClickCall>>,
     <<MoveCall(900, 10)>>,
     <<DirectMove(900, -3), DoubleClickCall>>}

\* Where the surface's cursor may be when the Mouse is built.
StartPositions == {Center, <<Px(Width), Px(Height)>>}

\* A thread calling the mouse on a target of any kind.
MouseReachInit ==
    /\ MouseInit
    /\ surf_pos \in StartPositions
    /\ surface \in {"reliable", "faulty", "bare"}
    /\ pings = MaxPings
    /\ script \in ReachScripts
    /\ tracing = TRUE


(***************************************************************************)
(*        CommandFormatterAgent and NLPMouseController.execute_command     *)
(***************************************************************************)

\* nlp_mouse_controller.py:56
max_regeneration_attempts == 5

\* command_formatter.py:30, the bounds of `0 <= x <= 1000 and 0 <= y <= 600`
FormatMaxX == 1000
FormatMaxY == 600

\* A command string, by the features the three regular expressions tell apart:
\*   kind   "move": 'move to (<x>,<y>)' with an optional ' and <action>' tail;
\*          "other": any other text; "empty": ''; "none": None
\*   x, y   the values of the two numerals (written without leading zeros)
\*   action "none", "click", "double-click" or "right-click"
\*   upper  some letter is upper case
\*   pad    there is white space after the opening parenthesis, before the
\*          comma or before the closing parenthesis
\*   nl     the string ends with a newline
Cmd(x, y, a) ==
    [kind |-> "move", x |-> x, y |-> y, action |-> a,
     upper |-> FALSE, pad |-> FALSE, nl |-> FALSE]

Upper(c) == [c EXCEPT !.upper = TRUE]
Padded(c) == [c EXCEPT !.pad = TRUE]
WithNewline(c) == [c EXCEPT !.nl = TRUE]

Text(k) ==
    [kind |-> k, x |-> 0, y |-> 0, action |-> "none",
     upper |-> FALSE, pad |-> FALSE, nl |-> FALSE]

NoneValue == Text("none")

\* What execute_command is called with.
Commands ==
    {Cmd(400, 300, "click"), Cmd(10, 10, "none"), Cmd(10, 10, "double-click"),
     Cmd(400, 300, "right-click"), Upper(Cmd(0, 0, "double-click")),
     Padded(Cmd(10, 10, "click")), Cmd(1001, 599, "none"),
     Upper(Cmd(1001, 599, "click")), Cmd(12345, 10, "click"),
     WithNewline(Cmd(400, 300, "none")), Text("other"), Text("empty")}

\* What _regenerate_command returns: whatever text the oracle gave, or None
\* when the call raised.
OracleReplies ==
    {NoneValue, Text("empty"), Text("other"), Cmd(400, 300, "click"),
     Cmd(10, 10, "none"), Upper(Cmd(10, 10, "click")),
     Cmd(10, 10, "double-click")}

\* `if new_command`: neither None nor ''
Truthy(c) == c.kind \notin {"none", "empty"}

\* validate_command: re.match(r'^move to \(\d+,\s*\d+\)(?:\s+and\s+click)?$')
\* on the string as it is (case matters; `$` also matches before a last newline)
validate_command(c) ==
    /\ c.kind = "move"
    /\ ~c.upper
    /\ ~c.pad
    /\ c.action \in {"none", "click"}

\* \d{1,4}
FourDigits(n) == n < 10000

\* format_command: re.fullmatch on command.lower() of
\* move to \(\s*(\d{1,4})\s*,\s*(\d{1,4})\s*\)(?:\s+and\s+(click|double-click|right-click))?
FormatMatches(c) ==
    /\ c.kind = "move"
    /\ ~c.nl
    /\ FourDigits(c.x)
    /\ FourDigits(c.y)

\* format_command: the rewritten command, or None
format_command(c) ==
    IF /\ FormatMatches(c)
       /\ 0 <= c.x /\ c.x <= FormatMaxX
       /\ 0 <= c.y /\ c.y <= FormatMaxY
    THEN Cmd(c.x, c.y, c.action)
    ELSE NoneValue

\* parse_command: re.fullmatch on command.lower() of
\* move to \(\s*(\d+)\s*,\s*(\d+)\s*\)(?:\s+and\s+(click|double-click|right-click))?
ParseMatches(c) == c.kind = "move" /\ ~c.nl

\* x = max(0, min(x, self.CUSTOM_VIEWPORT_WIDTH)), y likewise; the viewport is
\* (screen.width, screen.height)
ClampToViewport(x, y) == <<Max(0, Min(x, Width)), Max(0, Min(y, Height))>>

SwappedTarget(p, x, y) == p = <<Px(y), Px(x)>>

\* (current_x, current_y) == (x, y)
AtTarget(p, x, y) == p = <<Px(x), Px(y)>>

ExecInit ==
    /\ epc = "idle"
    /\ command = NoneValue
    /\ retry_attempts = 0
    /\ parsed = <<0, 0, "none">>
    /\ result = "none"
    /\ given = NoneValue
    /\ replies = <<>>
    /\ moveCalls = 0
    /\ executed = {}

\* execute_command(command): retry_attempts = 0
ExecCall ==
    /\ epc = "idle"
    /\ \E c \in Commands :
        /\ command' = c
        /\ given' = c
    /\ retry_attempts' = 0
    /\ epc' = "loop"
    /\ UNCHANGED <<parsed, result, replies, moveCalls, executed>>
    /\ UNCHANGED <<schedVars, mouseVars>>
    /\ UNCHANGED <<browserVars, gateVars, fmtVars, agentVars, poolVars, restVars>>
    /\ UNCHANGED ext_calls

\* `while retry_attempts < max_retries:` and, after it, `return False`
ExecLoop ==
    /\ epc = "loop"
    /\ IF retry_attempts < max_regeneration_attempts
       THEN epc' = "validate" /\ result' = result
       ELSE epc' = "done" /\ result' = "false"
    /\ UNCHANGED <<command, retry_attempts, parsed, given, replies, moveCalls,
                   executed>>
    /\ UNCHANGED <<schedVars, mouseVars>>
    /\ UNCHANGED <<browserVars, gateVars, fmtVars, agentVars, poolVars, restVars>>
    /\ UNCHANGED ext_calls

\* Lines 145-162: a command validate_command refuses goes through
\* format_command; if that returns None the command is to be regenerated.
ExecValidate ==
    /\ epc = "validate"
    /\ IF validate_command(command)
       THEN epc' = "parse" /\ command' = command
       ELSE IF format_command(command) = NoneValue
            THEN epc' = "regen" /\ command' = command
            ELSE epc' = "parse" /\ command' = format_command(command)
    /\ UNCHANGED <<retry_attempts, parsed, result, given, replies, moveCalls,
                   executed>>
    /\ UNCHANGED <<schedVars, mouseVars>>
    /\ UNCHANGED <<browserVars, gateVars, fmtVars, agentVars, poolVars, restVars>>
    /\ UNCHANGED ext_calls

KeepTrying == "loop"

\* Where execute_command goes when the regenerated command is not valid:
\* `return False  # Exit if regeneration fails`
RegenFailTarget == "done"

\* Lines 151-159: new_command = self._regenerate_command(); a valid one
\* replaces the command and counts as an attempt, any other ends the call.
ExecRegenerate ==
    /\ epc = "regen"
    /\ \E r \in OracleReplies :
        /\ replies' = Append(replies, r)
        /\ IF Truthy(r) /\ validate_command(r)
           THEN /\ command' = r
                /\ retry_attempts' = retry_attempts + 1
                /\ epc' = "loop"
                /\ result' = result
           ELSE /\ epc' = RegenFailTarget
                /\ result' = IF RegenFailTarget = "done" THEN "false" ELSE result
                /\ UNCHANGED <<command, retry_attempts>>
    /\ UNCHANGED <<parsed, given, moveCalls, executed>>
    /\ UNCHANGED <<schedVars, mouseVars>>
    /\ UNCHANGED <<browserVars, gateVars, fmtVars, agentVars, poolVars, restVars>>
    /\ ext_calls' = Calling("generate_command", NoLockHeld)

\* Lines 164-179: parse_command (None ends the call with False), clamp to the
\* viewport, then call self.mouse.move_to(x, y).
ExecParse ==
    /\ epc = "parse"
    /\ IF ~ParseMatches(command)
       THEN /\ epc' = "done"
            /\ result' = "false"
            /\ UNCHANGED <<parsed, moveCalls, executed, mpc, mtarget, callno,
                           msmooth>>
       ELSE LET xy == ClampToViewport(command.x, command.y)
            IN  /\ parsed' = <<xy[1], xy[2], command.action>>
                /\ mtarget' = ClampToScreen(<<Px(xy[1]), Px(xy[2])>>)
                /\ mpc' = "m_start"
                /\ callno' = callno + 1
                /\ moveCalls' = moveCalls + 1
                /\ executed' = executed \cup {command}
                /\ msmooth' = TRUE
                /\ epc' = "moving"
                /\ result' = result
    /\ UNCHANGED <<command, retry_attempts, given, replies>>
    /\ UNCHANGED <<position, surf_pos, surface, mpos, mi, mbutton, mdouble,
                   mpresses, mret, kpc, kpos, pings, script, tracing,
                   surface_log, clicks>>
    /\ UNCHANGED schedVars
    /\ mfaults' = {}
    /\ UNCHANGED <<browserVars, gateVars, fmtVars, agentVars, poolVars>>
    /\ UNCHANGED <<stopVars, restButMove>>
    /\ UNCHANGED ext_calls

AskOracleAgain == "regen"

\* Where execute_command goes after a failed move, position check, click or
\* click check: retry_attempts += 1; continue
RetryTarget == "loop"

\* Lines 179-183: move_to returned.
ExecAfterMove ==
    /\ epc = "moving"
    /\ mpc = "ret"
    /\ mpc' = "idle"
    /\ IF mret = "true"
       THEN epc' = "verify" /\ retry_attempts' = retry_attempts
       ELSE epc' = RetryTarget /\ retry_attempts' = retry_attempts + 1
    /\ UNCHANGED <<command, parsed, result, given, replies, moveCalls, executed>>
    /\ UNCHANGED <<position, surf_pos, surface, mtarget, mpos, mi, mbutton,
                   mdouble, mpresses, mret, callno, kpc, kpos, pings, script,
                   tracing, surface_log, clicks>>
    /\ UNCHANGED schedVars
    /\ UNCHANGED mfaults
    /\ UNCHANGED <<browserVars, gateVars, fmtVars, agentVars, poolVars, restVars>>
    /\ UNCHANGED ext_calls

\* Lines 186-194 and 220: _verify_location(x, y) reads self.mouse.get_position();
\* a command without action is then done.
ExecVerify ==
    /\ epc = "verify"
    /\ \E r \in Reports :
        /\ position' = SyncedPosition(r)
        /\ surf_pos' = SurfaceAfterReport(r)
        /\ IF AtTarget(SyncedPosition(r), parsed[1], parsed[2])
           THEN /\ retry_attempts' = retry_attempts
                /\ IF parsed[3] = "none"
                   THEN epc' = "done" /\ result' = "true"
                   ELSE epc' = "act" /\ result' = result
           ELSE /\ retry_attempts' = retry_attempts + 1
                /\ epc' = RetryTarget
                /\ result' = result
    /\ UNCHANGED <<command, parsed, given, replies, moveCalls, executed>>
    /\ UNCHANGED <<surface, mpc, mtarget, mpos, mi, mbutton, mdouble, mpresses,
                   mret, callno, kpc, kpos, pings, script, tracing,
                   surface_log, clicks>>
    /\ UNCHANGED schedVars
    /\ UNCHANGED mfaults
    /\ UNCHANGED <<browserVars, gateVars, fmtVars, agentVars, poolVars, restVars>>
    /\ ext_calls' = IF HasPrimitives
                    THEN Calling("get_mouse_position", PositionLockHeld)
                    ELSE ext_calls

\* Lines 197-202: "click" calls self.mouse.click(); "double-click" and
\* "right-click" call self.mouse.double_click() and self.mouse.right_click(),
\* which Mouse does not define: the AttributeError leaves execute_command.
ExecAct ==
    /\ epc = "act"
    /\ IF parsed[3] = "click"
       THEN /\ mbutton' = "left"
            /\ mdouble' = FALSE
            /\ mpc' = "k_start"
            /\ callno' = callno + 1
            /\ epc' = "clicking"
            /\ result' = result
       ELSE /\ epc' = "done"
            /\ result' = "raised"
            /\ UNCHANGED <<mbutton, mdouble, mpc, callno>>
    /\ UNCHANGED <<command, retry_attempts, parsed, given, replies, moveCalls,
                   executed>>
    /\ UNCHANGED <<position, surf_pos, surface, mtarget, mpos, mi, mpresses,
                   mret, kpc, kpos, pings, script, tracing, surface_log,
                   clicks>>
    /\ UNCHANGED schedVars
    /\ mfaults' = {}
    /\ UNCHANGED <<browserVars, gateVars, fmtVars, agentVars, poolVars, restVars>>
    /\ UNCHANGED ext_calls

\* Lines 207-210: the click returned.
ExecAfterClick ==
    /\ epc = "clicking"
    /\ mpc = "ret"
    /\ mpc' = "idle"
    /\ IF mret = "true"
       THEN epc' = "verify_click" /\ retry_attempts' = retry_attempts
       ELSE epc' = RetryTarget /\ retry_attempts' = retry_attempts + 1
    /\ UNCHANGED <<command, parsed, result, given, replies, moveCalls, executed>>
    /\ UNCHANGED <<position, surf_pos, surface, mtarget, mpos, mi, mbutton,
                   mdouble, mpresses, mret, callno, kpc, kpos, pings, script,
                   tracing, surface_log, clicks>>
    /\ UNCHANGED schedVars
    /\ UNCHANGED mfaults
    /\ UNCHANGED <<browserVars, gateVars, fmtVars, agentVars, poolVars, restVars>>
    /\ UNCHANGED ext_calls

\* Lines 215-220: _verify_click_success(x, y) reads self.mouse.get_position().
ExecVerifyClick ==
    /\ epc = "verify_click"
    /\ \E r \in Reports :
        /\ position' = SyncedPosition(r)
        /\ surf_pos' = SurfaceAfterReport(r)
        /\ IF AtTarget(SyncedPosition(r), parsed[1], parsed[2])
           THEN /\ retry_attempts' = retry_attempts
                /\ epc' = "done"
                /\ result' = "true"
           ELSE /\ retry_attempts' = retry_attempts + 1
                /\ epc' = RetryTarget
                /\ result' = result
    /\ UNCHANGED <<command, parsed, given, replies, moveCalls, executed>>
    /\ UNCHANGED <<surface, mpc, mtarget, mpos, mi, mbutton, mdouble, mpresses,
                   mret, callno, kpc, kpos, pings, script, tracing,
                   surface_log, clicks>>
    /\ UNCHANGED schedVars
    /\ UNCHANGED mfaults
    /\ UNCHANGED <<browserVars, gateVars, fmtVars, agentVars, poolVars, restVars>>
    /\ ext_calls' = IF HasPrimitives
                    THEN Calling("get_mouse_position", PositionLockHeld)
                    ELSE ext_calls

\* The mouse and the surface of a run of execute_command: the surface's cursor
\* starts at the centre or at the origin; the keep-alive thread is asleep.
MouseForExec ==
    /\ MouseInit
    /\ surf_pos \in {Center, <<0, 0>>}
    /\ surface \in {"reliable", "faulty"}
    /\ pings = 0
    /\ script = <<>>
    /\ tracing = (surface = "reliable")

(***************************************************************************)
(*                 BrowserController.normalize_coordinates                 *)
(***************************************************************************)

\* browser.py:30-31
ScreenshotSide == 1008

\* A coordinate is a fraction <<n, d>>, d > 0, in lowest terms: the value of
\* the Python float, without its rounding error.
RECURSIVE Gcd(_, _)
Gcd(a, b) == IF b = 0 THEN a ELSE Gcd(b, a % b)

Frac(n, d) == IF n = 0 THEN <<0, 1>> ELSE <<n \div Gcd(n, d), d \div Gcd(n, d)>>

Whole(k) == <<k, 1>>

\* (v * num) / den, den # 0
Scale(v, num, den) ==
    LET g == Gcd(v[1], den)
        h == Gcd(num, v[2])
    IN  IF v[1] = 0 \/ num = 0 THEN <<0, 1>>
        ELSE Frac((v[1] \div g) * (num \div h), (v[2] \div h) * (den \div g))

\* int(v), v >= 0
Truncated(v) == v[1] \div v[2]

Distance(a, b) == IF a < b THEN b - a ELSE a - b

\* What a call gives: the pair it returns, or ZeroDivisionError.  low tells,
\* for x and for y, whether the float lies just under the exact value.
Returned(x, y) ==
    [raised |-> FALSE, x |-> x, y |-> y, low |-> <<FALSE, FALSE>>]
ZeroDivision ==
    [raised |-> TRUE, x |-> <<0, 1>>, y |-> <<0, 1>>, low |-> <<FALSE, FALSE>>]

\* the y coordinate scaled with the viewport's width where the source has its
\* height
normalize_by_width(x, y, from_screenshot) ==
    IF from_screenshot
    THEN IF screenshot_width = 0 \/ screenshot_height = 0 THEN ZeroDivision
         ELSE Returned(Scale(x, viewport_width, screenshot_width),
                       Scale(y, viewport_width, screenshot_height))
    ELSE IF viewport_width = 0 \/ viewport_height = 0 THEN ZeroDivision
         ELSE Returned(Scale(x, screenshot_width, viewport_width),
                       Scale(y, screenshot_height, viewport_height))

\* normalize_coordinates(x, y, from_screenshot): a division by a dimension
\* that is 0 raises ZeroDivisionError, anything else returns the pair.
normalize_coordinates(x, y, from_screenshot) ==
    IF from_screenshot
    THEN IF screenshot_width = 0 \/ screenshot_height = 0 THEN ZeroDivision
         ELSE Returned(Scale(x, viewport_width, screenshot_width),
                       Scale(y, viewport_height, screenshot_height))
    ELSE IF viewport_width = 0 \/ viewport_height = 0 THEN ZeroDivision
         ELSE Returned(Scale(x, screenshot_width, viewport_width),
                       Scale(y, screenshot_height, viewport_height))

\* BrowserController(window_width=800, window_height=600), nothing converted.
BrowserInit ==
    /\ viewport_width = Width
    /\ viewport_height = Height
    /\ screenshot_width = ScreenshotSide
    /\ screenshot_height = ScreenshotSide
    /\ conv_in = <<Whole(0), Whole(0)>>
    /\ conv_dir = TRUE
    /\ conv_out = <<>>

\* Bound of the model: how many conversions are chained.
MaxConversions == 3

\* The coordinates a conversion chain starts from: whole ones and two that
\* lie between pixels.
CoordSamples ==
    {Whole(k) : k \in {0, 1, 7, 333, 504, 1007, 1008}} \cup {<<25, 2>>, <<1007, 2>>}

\* The widths and heights tried for the viewport and the screenshot.
ViewportSizes == {<<800, 600>>, <<776, 464>>, <<1008, 1008>>, <<0, 600>>,
                  <<800, 0>>}
ScreenshotSizes == {<<ScreenshotSide, ScreenshotSide>>, <<0, ScreenshotSide>>,
                    <<ScreenshotSide, 0>>}

NormalizeInit ==
    /\ \E v \in ViewportSizes :
        viewport_width = v[1] /\ viewport_height = v[2]
    /\ \E v \in ScreenshotSizes :
        screenshot_width = v[1] /\ screenshot_height = v[2]
    /\ \E x, y \in CoordSamples : conv_in = <<x, y>>
    /\ conv_dir \in BOOLEAN
    /\ conv_out = <<>>

\* The direction of the k-th conversion of a chain: there and back again.
DirectionOf(k) == IF k % 2 = 1 THEN conv_dir ELSE ~conv_dir

\* The rounding of a float multiplication and division is far smaller than
\* the distance of a fraction of these sizes to the next whole number: it can
\* show in int() only when the exact value is whole and the float fell short
\* of it.  Every whole result is allowed to fall short, which encloses what
\* the floats do.
CanFallShort(v) == v[2] = 1 /\ v[1] > 0

Rounded(out, lx, ly) == [out EXCEPT !.low = <<lx, ly>>]

\* int() of a returned coordinate
IntOf(v, low) == IF low THEN Truncated(v) - 1 ELSE Truncated(v)

\* normalize_coordinates applied to the input, or to what the call before
\* returned, in the opposite direction.  Nothing follows a call that raised.
NormalizeCall ==
    /\ Len(conv_out) < MaxConversions
    /\ conv_out # <<>> => ~conv_out[Len(conv_out)].raised
    /\ LET k == Len(conv_out) + 1
           arg == IF k = 1 THEN conv_in
                  ELSE <<conv_out[k - 1].x, conv_out[k - 1].y>>
           out == normalize_coordinates(arg[1], arg[2], DirectionOf(k))
       IN  \E lx, ly \in BOOLEAN :
               /\ lx => (~out.raised /\ CanFallShort(out.x))
               /\ ly => (~out.raised /\ CanFallShort(out.y))
               /\ conv_out' = Append(conv_out, Rounded(out, lx, ly))
    /\ UNCHANGED <<viewport_width, viewport_height, screenshot_width,
                   screenshot_height, conv_in, conv_dir>>
    /\ UNCHANGED <<schedVars, mouseVars, execVars, ext_calls, gateVars,
                   fmtVars, agentVars, poolVars, restVars>>

(***************************************************************************)
(*     MouseControllerHelper, TaskManager and the element functions        *)
(***************************************************************************)

\* task_manager.py:287, 313, 339: max_attempts=3
max_attempts == 3

\* task_manager.py:302, 328, 354: `if confidence >= 90:`
PositionThreshold == 90

\* task_manager.py:254: `if is_completed and confidence >= 75:`
CompletionThreshold == 75

\* What the oracle (qwen2vl.chat, text_agent.complete_task) returns, by what
\* the parsing code tells apart:
\*   form      "str": a string; "list": a non-empty list whose first element
\*             is a string; "empty_list": []; "none": None
\*   json      of the string: "object": a JSON object; "other": JSON that is
\*             not an object (array, number, string, null); "bad": not JSON
\*   conf      the object's "confidence": <<"num", n>> a number n,
\*             <<"numstr", n>> a string that spells n, <<"text", 0>> any other
\*             string, <<"null", 0>> null, <<"missing", 0>> no such key
\*   completed the object's "completed": "true", "false" or "missing"
Reply(f, j, c, d) == [form |-> f, json |-> j, conf |-> c, completed |-> d]

NoConf == <<"missing", 0>>

ConfNumbers == {0, 74, 75, 89, 90, 100}

ConfFields ==
    {<<"num", n>> : n \in ConfNumbers}
        \cup {<<"numstr", 95>>, <<"text", 0>>, <<"null", 0>>, NoConf}

Forms == {"str", "list"}

NoReply == Reply("none", "bad", NoConf, "missing")

\* Replies to the question of verify_mouse_position.
PositionReplies ==
    {Reply(f, "object", c, "missing") : f \in Forms, c \in ConfFields}
        \cup {Reply(f, j, NoConf, "missing") : f \in Forms, j \in {"other", "bad"}}
        \cup {Reply("empty_list", "bad", NoConf, "missing"), NoReply}

\* How a call ended: it raised, or it returned `value`; `appended` says
\* whether it appended a record to movement_history.
Raises == [raised |-> TRUE, value |-> 0, appended |-> FALSE]
Gives(v, app) == [raised |-> FALSE, value |-> v, appended |-> app]

\* float(data.get("confidence", 0.0)) and the handlers around it:
\* json.loads of text that is not JSON and float() of a string that spells
\* no number raise ValueError, which is caught; data.get on a value that is
\* not a dict raises AttributeError and float(None) raises TypeError, which
\* are not.
ParsedConfidence(r, keepsHistory) ==
    CASE r.json = "bad" -> Gives(0, keepsHistory)
      [] r.json = "other" -> Raises
      [] r.json = "object" ->
           CASE r.conf[1] \in {"num", "numstr"} -> Gives(r.conf[2], keepsHistory)
             [] r.conf[1] \in {"text", "missing"} -> Gives(0, keepsHistory)
             [] r.conf[1] = "null" -> Raises

\* verify_mouse_position of the three MouseControllerHelper classes, from the
\* oracle's reply on.
verify_mouse_position(class, r) ==
    CASE class = "task_manager" ->
           IF r.form \in {"list", "str"} THEN ParsedConfidence(r, FALSE)
           ELSE Gives(0, FALSE)
      [] class = "qwenvl_test" ->
           IF r.form \in {"list", "str"} THEN ParsedConfidence(r, TRUE)
           ELSE Gives(0, TRUE)
      [] class = "click_continue_in_browser" ->
           IF r.form = "str" THEN ParsedConfidence(r, TRUE)
           ELSE Raises

\* The coordinates locate_element_coordinates returns: <<>> is (None, None).
NotLocated == <<>>
Located == {NotLocated, <<500, 500>>, <<120, 80>>}

ElementFunctions == {"click_element", "click_and_type_element", "move_to_element"}

\* What each element function asks of the browser once the position is verified.
ActionOf(f) ==
    CASE f = "click_element" -> "click_at"
      [] f = "click_and_type_element" -> "click_and_type"
      [] f = "move_to_element" -> "move_mouse_to"

\* Entries of gate_log: <<who, what, coordinates, attempt, confidence>>.
\* The helper's verify_mouse_position moves the pointer and reports what it
\* returned; the element function performs its action.
Probe(xy, n) == <<"helper", "move_mouse_to", xy, n, 0>>
Verified(xy, n, c) == <<"helper", "verified", xy, n, c>>
Action(kind, xy, n) == <<"function", kind, xy, n, 0>>

AnyConfidence(c) == c >= 0

\* `if confidence >= 90:`
Passes(c) == c >= PositionThreshold

GateInit ==
    /\ gpc = "idle"
    /\ gfun = "click_element"
    /\ attempt = 0
    /\ gxy = <<Whole(0), Whole(0)>>
    /\ confidence = Gives(0, FALSE)
    /\ gresult = "none"
    /\ gate_log = <<>>
    /\ response = NoReply
    /\ completion = [reply |-> NoReply, has_task |-> FALSE, outcome |-> "none"]
    /\ movement_history = <<>>
    /\ hist_before = <<>>
    /\ hist_op = [op |-> "none", class |-> "task_manager", reply |-> NoReply,
                  outcome |-> Gives(0, FALSE)]

\* click_element / click_and_type_element / move_to_element is called.
ElementCall ==
    /\ gpc = "idle"
    /\ gfun' \in ElementFunctions
    /\ attempt' = 0
    /\ gpc' = "locate"
    /\ gresult' = "none"
    /\ gate_log' = <<>>
    /\ completion' = [reply |-> NoReply, has_task |-> FALSE, outcome |-> "none"]
    /\ UNCHANGED <<gxy, confidence, response, movement_history, hist_before,
                   hist_op>>
    /\ UNCHANGED <<schedVars, mouseVars, execVars, ext_calls, browserVars,
                   fmtVars, agentVars, poolVars, restVars>>

\* `for attempt in range(max_attempts)`: locate_element_coordinates; without
\* coordinates the attempt is over; move_to_element converts them to the
\* viewport. After the last attempt the function returns False.
ElementLocate ==
    /\ gpc = "locate"
    /\ IF attempt >= max_attempts
       THEN /\ gpc' = "done"
            /\ gresult' = "false"
            /\ UNCHANGED <<attempt, gxy>>
       ELSE \E at \in Located :
              IF at = NotLocated
              THEN /\ attempt' = attempt + 1
                   /\ UNCHANGED <<gpc, gxy, gresult>>
              ELSE LET n == normalize_coordinates(Whole(at[1]), Whole(at[2]), TRUE)
                   IN  /\ gxy' = IF gfun = "move_to_element"
                                 THEN <<n.x, n.y>>
                                 ELSE <<Whole(at[1]), Whole(at[2])>>
                       /\ gpc' = "verify"
                       /\ UNCHANGED <<attempt, gresult>>
    /\ UNCHANGED <<gfun, confidence, gate_log, response, completion,
                   movement_history, hist_before, hist_op>>
    /\ UNCHANGED <<schedVars, mouseVars, execVars, ext_calls, browserVars,
                   fmtVars, agentVars, poolVars, restVars>>

\* confidence = helper.verify_mouse_position(x, y, element_name): the helper
\* moves the pointer to (x, y), takes the screenshot and asks the oracle; then
\* `if confidence >= 90` chooses between the action and the next attempt.
ElementVerify ==
    /\ gpc = "verify"
    /\ \E r \in PositionReplies :
        LET c == verify_mouse_position("task_manager", r)
            probed == Append(gate_log, Probe(gxy, attempt))
        IN  /\ response' = r
            /\ confidence' = c
            /\ IF c.raised
               THEN /\ gate_log' = probed
                    /\ gpc' = "done"
                    /\ gresult' = "raised"
                    /\ UNCHANGED attempt
               ELSE /\ gate_log' = Append(probed, Verified(gxy, attempt, c.value))
                    /\ gresult' = gresult
                    /\ IF Passes(c.value)
                       THEN gpc' = "act" /\ attempt' = attempt
                       ELSE gpc' = "locate" /\ attempt' = attempt + 1
    /\ UNCHANGED <<gfun, gxy, completion, movement_history, hist_before, hist_op>>
    /\ UNCHANGED <<schedVars, mouseVars, execVars, ext_calls, browserVars,
                   fmtVars, agentVars, poolVars, restVars>>

\* browser.click_at(x, y) / click_and_type(x, y, text) / move_mouse_to(x, y),
\* then `return True`.
ElementAct ==
    /\ gpc = "act"
    /\ gate_log' = Append(gate_log, Action(ActionOf(gfun), gxy, attempt))
    /\ gresult' = "true"
    /\ gpc' = "done"
    /\ UNCHANGED <<gfun, attempt, gxy, confidence, response, completion,
                   movement_history, hist_before, hist_op>>
    /\ UNCHANGED <<schedVars, mouseVars, execVars, ext_calls, browserVars,
                   fmtVars, agentVars, poolVars, restVars>>

\* The element function has returned (or raised) and its locals are gone;
\* TaskManager goes on with what it returned.
ElementReturn ==
    /\ gpc = "done"
    /\ gpc' = "idle"
    /\ attempt' = 0
    /\ gxy' = <<Whole(0), Whole(0)>>
    /\ confidence' = Gives(0, FALSE)
    /\ gate_log' = <<>>
    /\ response' = NoReply
    /\ UNCHANGED <<gfun, gresult, completion, movement_history, hist_before,
                   hist_op>>
    /\ UNCHANGED <<schedVars, mouseVars, execVars, ext_calls, browserVars,
                   fmtVars, agentVars, poolVars, restVars>>

\* Replies to the question of verify_task_completion.
CompletionReplies ==
    {Reply(f, "object", c, d) :
        f \in Forms, c \in ConfFields, d \in {"true", "false", "missing"}}
        \cup {Reply("str", j, NoConf, "missing") : j \in {"other", "bad"}}
        \cup {Reply("empty_list", "bad", NoConf, "missing"), NoReply}

\* `confidence >= 75`
CompletionPasses(c) == c >= CompletionThreshold

\* verify_task_completion from the oracle's reply on: result[0] of [] raises
\* IndexError and json.loads(None) TypeError; text that is not JSON is caught
\* (return False); data.get on a non-dict raises AttributeError; with a true
\* "completed", `confidence >= 75` raises TypeError for a string or null.
verify_task_completion(r, has_task) ==
    CASE ~has_task -> "false"
      [] r.form \in {"empty_list", "none"} -> "raised"
      [] r.json = "bad" -> "false"
      [] r.json = "other" -> "raised"
      [] OTHER ->
           IF r.completed # "true" THEN "false"
           ELSE CASE r.conf[1] = "num" ->
                       IF CompletionPasses(r.conf[2]) THEN "true" ELSE "false"
                  [] r.conf[1] = "missing" ->
                       IF CompletionPasses(0) THEN "true" ELSE "false"
                  [] OTHER -> "raised"

\* TaskManager.verify_task_completion is called, with or without a current task.
VerifyTaskCompletion ==
    /\ gpc = "idle"
    /\ \E r \in CompletionReplies, has_task \in BOOLEAN :
        completion' = [reply |-> r, has_task |-> has_task,
                       outcome |-> verify_task_completion(r, has_task)]
    /\ UNCHANGED <<gpc, gfun, attempt, gxy, confidence, gresult, gate_log,
                   response, movement_history, hist_before, hist_op>>
    /\ UNCHANGED <<schedVars, mouseVars, execVars, ext_calls, browserVars,
                   fmtVars, agentVars, poolVars, restVars>>

\* Bound of the model: how long movement_history grows.
MaxHistory == 3

HelperClasses == {"task_manager", "click_continue_in_browser", "qwenvl_test"}

\* The more_info stored with a position: the reply's own text, the text of
\* the except branch, or '' when there was nothing to parse.
InfoOf(r) ==
    CASE r.form \notin {"list", "str"} -> ""
      [] r.json = "object" /\ r.conf[1] \in {"num", "numstr", "missing"} -> "more_info"
      [] OTHER -> "Invalid response format."

HistoryRecord(xy, info) == [x |-> xy[1], y |-> xy[2], more_info |-> info]

\* self.movement_history.append(record)
Appended(h, rec) == Append(h, rec)

Operation(op, class, r, out) ==
    [op |-> op, class |-> class, reply |-> r, outcome |-> out]

\* A helper of one of the three classes, nothing asked of it yet.
HelperInit ==
    /\ movement_history = <<>>
    /\ hist_before = <<>>
    /\ \E class \in HelperClasses :
        hist_op = Operation("none", class, NoReply, Gives(0, FALSE))

\* helper.verify_mouse_position(x, y, element_name)
HelperVerify ==
    /\ Len(movement_history) < MaxHistory
    /\ \E xy \in Located \ {NotLocated}, r \in PositionReplies :
        LET out == verify_mouse_position(hist_op.class, r)
        IN  /\ hist_op' = Operation("verify", hist_op.class, r, out)
            /\ movement_history' =
                   IF out.appended
                   THEN Appended(movement_history, HistoryRecord(xy, InfoOf(r)))
                   ELSE movement_history
    /\ hist_before' = movement_history
    /\ UNCHANGED <<gpc, gfun, attempt, gxy, confidence, gresult, gate_log,
                   response, completion>>
    /\ UNCHANGED <<schedVars, mouseVars, execVars, ext_calls, browserVars,
                   fmtVars, agentVars, poolVars, restVars>>

\* helper.movement_history.append({"x": x, "y": y, "more_info": ...}) in
\* click_element and in refine_position_with_history.
HelperNote ==
    /\ hist_op.class # "task_manager"
    /\ Len(movement_history) < MaxHistory
    /\ \E xy \in Located \ {NotLocated}, info \in {"", "more_info"} :
        movement_history' = Appended(movement_history, HistoryRecord(xy, info))
    /\ hist_before' = movement_history
    /\ hist_op' = Operation("note", hist_op.class, NoReply, Gives(0, TRUE))
    /\ UNCHANGED <<gpc, gfun, attempt, gxy, confidence, gresult, gate_log,
                   response, completion>>
    /\ UNCHANGED <<schedVars, mouseVars, execVars, ext_calls, browserVars,
                   fmtVars, agentVars, poolVars, restVars>>

\* reset_history (qwenvl_test.py): self.movement_history = []
reset_history ==
    /\ hist_op.class = "qwenvl_test"
    /\ movement_history # <<>>
    /\ movement_history' = <<>>
    /\ hist_before' = movement_history
    /\ hist_op' = Operation("reset", hist_op.class, NoReply, Gives(0, FALSE))
    /\ UNCHANGED <<gpc, gfun, attempt, gxy, confidence, gresult, gate_log,
                   response, completion>>
    /\ UNCHANGED <<schedVars, mouseVars, execVars, ext_calls, browserVars,
                   fmtVars, agentVars, poolVars, restVars>>

(***************************************************************************)
(*                CommandFormatterAgent.format_command alone               *)
(***************************************************************************)

\* A string is the sequence of its characters.
MoveToText == <<"m", "o", "v", "e", " ", "t", "o", " ", "(">>
AndText == <<"a", "n", "d">>
ClickText == <<"c", "l", "i", "c", "k">>
DoubleClickText == <<"d", "o", "u", "b", "l", "e", "-", "c", "l", "i", "c", "k">>
RightClickText == <<"r", "i", "g", "h", "t", "-", "c", "l", "i", "c", "k">>

\* str.lower, letter by letter
LowerCase ==
    ("A" :> "a") @@
    ("B" :> "b") @@
    ("C" :> "c") @@
    ("D" :> "d") @@
    ("E" :> "e") @@
    ("F" :> "f") @@
    ("G" :> "g") @@
    ("H" :> "h") @@
    ("I" :> "i") @@
    ("J" :> "j") @@
    ("K" :> "k") @@
    ("L" :> "l") @@
    ("M" :> "m") @@
    ("N" :> "n") @@
    ("O" :> "o") @@
    ("P" :> "p") @@
    ("Q" :> "q") @@
    ("R" :> "r") @@
    ("S" :> "s") @@
    ("T" :> "t") @@
    ("U" :> "u") @@
    ("V" :> "v") @@
    ("W" :> "w") @@
    ("X" :> "x") @@
    ("Y" :> "y") @@
    ("Z" :> "z")

\* the characters as they were written
AsWritten(s) == s

lower(s) ==
    [i \in 1..Len(s) |-> IF s[i] \in DOMAIN LowerCase THEN LowerCase[s[i]]
                         ELSE s[i]]

\* \s and \d of the pattern
IsSpace(c) == c \in {" ", "\t", "\n"}

DigitValue == ("0" :> 0) @@ ("1" :> 1) @@ ("2" :> 2) @@ ("3" :> 3) @@ ("4" :> 4) @@ ("5" :> 5) @@ ("6" :> 6) @@ ("7" :> 7) @@ ("8" :> 8) @@ ("9" :> 9)

IsDigit(c) == c \in DOMAIN DigitValue

\* where a greedy \s* that starts at i stops
RECURSIVE SpacesEnd(_, _)
SpacesEnd(s, i) ==
    IF i <= Len(s) /\ IsSpace(s[i]) THEN SpacesEnd(s, i + 1) ELSE i

\* where a run of digits that starts at i stops
RECURSIVE DigitsEnd(_, _)
DigitsEnd(s, i) ==
    IF i <= Len(s) /\ IsDigit(s[i]) THEN DigitsEnd(s, i + 1) ELSE i

\* \d{1,4}: what follows the group in the pattern is never a digit, so the
\* group is a whole run of one to four digits
DigitsWithin(n) == n \in 1..4

\* s[i..j] is the text w
IsAt(s, i, w) ==
    /\ i + Len(w) - 1 <= Len(s)
    /\ SubSeq(s, i, i + Len(w) - 1) = w

\* (click|double-click|right-click)
ActionTexts == {ClickText, DoubleClickText, RightClickText}

NoMatch == [matched |-> FALSE, g1 |-> <<>>, g2 |-> <<>>, g3 |-> <<>>]

\* re.fullmatch of
\*  move to \(\s*(\d{1,4})\s*,\s*(\d{1,4})\s*\)(?:\s+and\s+(click|double-click|right-click))?
\* on s, with the three groups of the match
fullmatch(s) ==
    LET n  == Len(s)
        x1 == SpacesEnd(s, Len(MoveToText) + 1)
        x2 == DigitsEnd(s, x1)
        cm == SpacesEnd(s, x2)
        y1 == SpacesEnd(s, cm + 1)
        y2 == DigitsEnd(s, y1)
        cl == SpacesEnd(s, y2)
        a1 == SpacesEnd(s, cl + 1)
        a2 == SpacesEnd(s, a1 + Len(AndText))
    IN  IF /\ IsAt(s, 1, MoveToText)
           /\ DigitsWithin(x2 - x1)
           /\ IsAt(s, cm, <<",">>)
           /\ DigitsWithin(y2 - y1)
           /\ IsAt(s, cl, <<")">>)
        THEN IF cl = n
             THEN [matched |-> TRUE, g1 |-> SubSeq(s, x1, x2 - 1),
                   g2 |-> SubSeq(s, y1, y2 - 1), g3 |-> <<>>]
             ELSE IF /\ a1 > cl + 1
                     /\ IsAt(s, a1, AndText)
                     /\ a2 > a1 + Len(AndText)
                     /\ a2 <= n
                     /\ SubSeq(s, a2, n) \in ActionTexts
                  THEN [matched |-> TRUE, g1 |-> SubSeq(s, x1, x2 - 1),
                        g2 |-> SubSeq(s, y1, y2 - 1), g3 |-> SubSeq(s, a2, n)]
                  ELSE NoMatch
        ELSE NoMatch

\* int() of a run of digits
RECURSIVE int(_)
int(ds) ==
    IF ds = <<>> THEN 0
    ELSE 10 * int(SubSeq(ds, 1, Len(ds) - 1)) + DigitValue[ds[Len(ds)]]

DigitText == [k \in 0..9 |-> CHOOSE c \in DOMAIN DigitValue : DigitValue[c] = k]

\* how an f-string writes a non-negative integer
RECURSIVE str(_)
str(k) == IF k < 10 THEN <<DigitText[k]>> ELSE str(k \div 10) \o <<DigitText[k % 10]>>

\* `0 <= x <= 1000 and 0 <= y <= 600`
WithinBounds(x, y) == 0 <= x /\ x <= FormatMaxX /\ 0 <= y /\ y <= FormatMaxY

NotCalled == [called |-> FALSE, none |-> TRUE, text |-> <<>>, logged |-> "nothing"]

\* return None, after logger.error
Rejected(why) == [called |-> TRUE, none |-> TRUE, text |-> <<>>, logged |-> why]

Formatted(s) == [called |-> TRUE, none |-> FALSE, text |-> s, logged |-> "nothing"]

\* format_command on the text of the command: the rewritten command, or None
\* with one of two error lines in the log
FormatCommandText(cmd) ==
    LET match == fullmatch(lower(cmd))
        x == int(match.g1)
        y == int(match.g2)
        action == match.g3
        formatted_command ==
            MoveToText \o str(x) \o <<",", " ">> \o str(y) \o <<")">>
    IN  IF match.matched
        THEN IF WithinBounds(x, y)
             THEN IF action # <<>>
                  THEN Formatted(formatted_command \o <<" ">> \o AndText
                                 \o <<" ">> \o action)
                  ELSE Formatted(formatted_command)
             ELSE Rejected("coordinates out of bounds")
        ELSE Rejected("does not match expected format")

\* The strings format_command is given: every way of putting one piece of
\* each kind after the other.
Heads == {MoveToText, <<"M", "O", "V", "E", " ", "T", "O", " ", "(">>, <<"g", "o", " ", "t", "o", " ", "(">>, <<"m", "o", "v", "e", " ", "t", "o", " ">>}

XNumerals ==
    {<<"1", "2">>, <<"0">>, <<"1", "0", "0", "0">>, <<"1", "0", "0", "1">>, <<"0", "0", "1", "2">>, <<"1", "2", "3", "4", "5">>, <<"1", "2", ".", "5">>, <<>>}

YNumerals == {<<"3", "4">>, <<"0">>, <<"5", "9", "9">>, <<"6", "0", "0">>, <<"6", "0", "1">>}

Pads == {<<>>, <<" ">>}

Closings == {<<")">>, <<>>}

PlainTails ==
    {<<>>, <<" ", "a", "n", "d", " ", "c", "l", "i", "c", "k">>, <<" ", "A", "N", "D", " ", "D", "O", "U", "B", "L", "E", "-", "C", "L", "I", "C", "K">>, <<" ", "a", "n", "d", " ", "r", "i", "g", "h", "t", "-", "c", "l", "i", "c", "k">>}

SpacedTails == {<<" ", " ", "a", "n", "d", "\t", "c", "l", "i", "c", "k">>}

OtherTails == {<<" ", "a", "n", "d", " ", "t", "a", "p">>, <<" ", "p", "l", "e", "a", "s", "e">>, <<"a", "n", "d", " ", "c", "l", "i", "c", "k">>, <<"\n">>}

FormatParts ==
    [head : Heads, x : XNumerals, y : YNumerals, padL : Pads, padC1 : Pads,
     padC2 : Pads, padR : Pads, close : Closings,
     tail : PlainTails \cup SpacedTails \cup OtherTails]

Render(p) ==
    p.head \o p.padL \o p.x \o p.padC1 \o <<",">> \o p.padC2 \o p.y \o p.padR
           \o p.close \o p.tail

NoParts ==
    [head |-> <<>>, x |-> <<>>, y |-> <<>>, padL |-> <<>>, padC1 |-> <<>>,
     padC2 |-> <<>>, padR |-> <<>>, close |-> <<>>, tail |-> <<>>]

\* No string has been given to format_command yet.
FmtInit ==
    /\ fmt_in = <<>>
    /\ fmt_parts = NoParts
    /\ fmt_out = NotCalled

\* A caller holds a string and has not called format_command yet.
FormatInit ==
    /\ fmt_parts \in FormatParts
    /\ fmt_in = Render(fmt_parts)
    /\ fmt_out = NotCalled

\* CommandFormatterAgent.format_command(fmt_in)
FormatCall ==
    /\ ~fmt_out.called
    /\ fmt_out' = FormatCommandText(fmt_in)
    /\ UNCHANGED <<fmt_in, fmt_parts>>
    /\ UNCHANGED <<schedVars, mouseVars, execVars, ext_calls, browserVars,
                   gateVars, agentVars, poolVars, restVars>>

(***************************************************************************)
(*      TextAgent.generate_command and ErrorController.handle_error        *)
(***************************************************************************)

\* error_controller.py:11, max_retries: int = 3 (text.py:23 passes nothing)
max_retries == 3

\* Bound of the model: how many generate_command calls fit on the call stack
\* before the interpreter raises RecursionError.
RecursionLimit == 6

\* What complete_task gives generate_command:
\*   "match"    text that re.fullmatch of line 130 accepts
\*   "mismatch" any other text
\*   "raise"    it raised (text.py:105), or gave None and command.strip() raised
OracleAnswers == {"match", "mismatch", "raise"}

\* One generate_command call in progress:
\*   pc "ask"    before self.complete_task
\*      "handle" in the loop of handle_error, at the given attempt
\*      "return" at its return statement, with the value
Frame(p, k, v) == [pc |-> p, attempt |-> k, value |-> v]

Asking == Frame("ask", 0, "")
Handling(k) == Frame("handle", k, "")
Returning(v) == Frame("return", 0, v)

Top == gen_stack[Len(gen_stack)]

WithTop(f) == [gen_stack EXCEPT ![Len(gen_stack)] = f]

Popped == SubSeq(gen_stack, 1, Len(gen_stack) - 1)

\* What retry_callback, `lambda: self.generate_command(input_data)`, does to
\* the stack: one more generate_command call.
AfterCallback == Append(gen_stack, Asking)

AgentInit ==
    /\ gen_stack = <<>>
    /\ gen_calls = 0
    /\ gen_result = "none"
    /\ gen_log = <<>>

\* A caller (_regenerate_command, decide_next_action) calls generate_command.
GenerateCall ==
    /\ gen_stack = <<>>
    /\ gen_result = "none"
    /\ gen_stack' = <<Asking>>
    /\ UNCHANGED <<gen_calls, gen_result, gen_log>>
    /\ UNCHANGED <<schedVars, mouseVars, execVars, ext_calls, browserVars,
                   gateVars, fmtVars, poolVars, restVars>>

\* complete_task and the test of its reply: a match is returned; on a
\* mismatch or an exception handle_error is entered with the retry callback.
GenerateAsk ==
    /\ gen_stack # <<>>
    /\ Top.pc = "ask"
    /\ \E r \in OracleAnswers :
        /\ gen_log' = Append(gen_log, r)
        /\ gen_stack' = WithTop(IF r = "match" THEN Returning("command")
                                ELSE Handling(1))
    /\ gen_calls' = gen_calls + 1
    /\ UNCHANGED gen_result
    /\ UNCHANGED <<schedVars, mouseVars, execVars, ext_calls, browserVars,
                   gateVars, fmtVars, poolVars, restVars>>

\* One pass of `for attempt in range(1, self.max_retries + 1)`: sleep, then
\* retry_callback().  With the stack full the call raises RecursionError,
\* which the loop catches and answers with the next attempt.
HandleRetry ==
    /\ gen_stack # <<>>
    /\ Top.pc = "handle"
    /\ Top.attempt <= max_retries
    /\ gen_stack' = IF Len(gen_stack) < RecursionLimit THEN AfterCallback
                    ELSE WithTop(Handling(Top.attempt + 1))
    /\ UNCHANGED <<gen_calls, gen_result, gen_log>>
    /\ UNCHANGED <<schedVars, mouseVars, execVars, ext_calls, browserVars,
                   gateVars, fmtVars, poolVars, restVars>>

\* The loop is over: handle_error returns False and generate_command goes on
\* to `return ""`.
HandleExhausted ==
    /\ gen_stack # <<>>
    /\ Top.pc = "handle"
    /\ Top.attempt > max_retries
    /\ gen_stack' = WithTop(Returning(""))
    /\ UNCHANGED <<gen_calls, gen_result, gen_log>>
    /\ UNCHANGED <<schedVars, mouseVars, execVars, ext_calls, browserVars,
                   gateVars, fmtVars, poolVars, restVars>>

\* A generate_command call returns.  Its caller is either the outside caller,
\* or the retry_callback of the call below: there the callback has not raised,
\* so handle_error returns True and that call goes on to `return ""`,
\* dropping the value.
GenerateReturn ==
    /\ gen_stack # <<>>
    /\ Top.pc = "return"
    /\ IF Len(gen_stack) = 1
       THEN /\ gen_result' = (IF Top.value = "" THEN "empty" ELSE Top.value)
            /\ gen_stack' = <<>>
       ELSE /\ gen_stack' = [Popped EXCEPT ![Len(gen_stack) - 1] = Returning("")]
            /\ UNCHANGED gen_result
    /\ UNCHANGED <<gen_calls, gen_log>>
    /\ UNCHANGED <<schedVars, mouseVars, execVars, ext_calls, browserVars,
                   gateVars, fmtVars, poolVars, restVars>>

(***************************************************************************)
(*              The components below, before anybody calls them            *)
(***************************************************************************)

\* Nobody has called move_to yet.
MoveInit == msmooth = TRUE

\* BrowserController.__init__: self.last_mouse_position = None; a new
\* session's pointer is at the viewport's origin.
PointerInit ==
    /\ last_mouse_position = <<>>
    /\ pointer = <<0, 0>>
    /\ click_log = <<>>

\* ErrorController() as TextAgent builds it (max_retries = 3,
\* initial_retry_delay = 2, backoff_factor = 2.0), nobody inside handle_error.
HandleInit ==
    /\ ec = [max_retries |-> 3, initial_retry_delay |-> 2, backoff_factor |-> 2]
    /\ hcallback = FALSE
    /\ hpc = "idle"
    /\ hattempt = 0
    /\ hdelay = 0
    /\ hret = "none"
    /\ hsleeps = <<>>
    /\ houtcomes = <<>>

\* test_continue_in_browser before it calls retry_task: `history` holds the
\* task and the pointer positions before and after the first command.
RetryInit ==
    /\ rt_pc = "idle"
    /\ rt_depth = 0
    /\ rt_history = <<Center, Center>>
    /\ rt_attempts = <<>>

\* TaskManager.__init__: no task, current_task_index = 0.
ManagerInit ==
    /\ tm_completed = <<>>
    /\ current_task_index = 0
    /\ tm_pc = "idle"
    /\ tm_max = 0
    /\ tm_retries = 0
    /\ tm_task = 0
    /\ tm_ret = "none"
    /\ tm_runs = 0
    /\ tm_executions = <<>>
    /\ tm_log = <<>>

\* FlowController.__init__: 'average_processing_time': 0.0
MetricsInit ==
    /\ average_processing_time = Whole(0)
    /\ timed = <<>>

\* Mouse.__init__, line 31: self.active = True; nobody has called stop().
StopInit ==
    /\ active = TRUE
    /\ spc = "idle"
    /\ after_stop = 0

RestInit ==
    /\ MoveInit
    /\ StopInit
    /\ PointerInit
    /\ HandleInit
    /\ RetryInit
    /\ ManagerInit
    /\ MetricsInit

(***************************************************************************)
(*           BrowserController.move_mouse_to and click_at                  *)
(***************************************************************************)

\* Bound of the model: how many times click_at is called.
MaxClicks == 3

\* The (x, y) the two methods are called with: inside the viewport, on its
\* edges, and outside it.
PointerTargets == {<<400, 300>>, <<0, 0>>, <<800, 600>>, <<801, 10>>, <<10, -1>>}

\* 0 <= x <= self.viewport_width and 0 <= y <= self.viewport_height
InViewport(x, y) ==
    /\ 0 <= x /\ x <= viewport_width
    /\ 0 <= y /\ y <= viewport_height

\* `if self.last_mouse_position is None: self.last_mouse_position = (0, 0)`
Tracked == IF last_mouse_position = <<>> THEN <<0, 0>> ELSE last_mouse_position

\* self.actions.move_by_offset(offset_x, offset_y).perform(), from pointer p
MovedByOffset(p, dx, dy) == <<p[1] + dx, p[2] + dy>>

\* move_mouse_to(x, y): the pointer afterwards
PointerAfterMove(x, y) ==
    IF InViewport(x, y)
    THEN MovedByOffset(pointer, x - Tracked[1], y - Tracked[2])
    ELSE pointer

\* move_mouse_to(x, y): self.last_mouse_position afterwards
TrackedAfterMove(x, y) == IF InViewport(x, y) THEN <<x, y>> ELSE Tracked

move_mouse_to ==
    /\ \E p \in PointerTargets :
        /\ pointer' = PointerAfterMove(p[1], p[2])
        /\ last_mouse_position' = TrackedAfterMove(p[1], p[2])
    /\ UNCHANGED click_log
    /\ UNCHANGED <<schedVars, mouseVars, execVars, ext_calls>>
    /\ UNCHANGED <<browserVars, gateVars, fmtVars, agentVars, poolVars>>
    /\ UNCHANGED othersOfPointer

\* Whether click_at goes on to click after move_mouse_to(x, y).
ClicksAfterMove(x, y) == TRUE

\* click_at(x, y): self.move_mouse_to(x, y); self.actions.click().perform()
click_at ==
    /\ Len(click_log) < MaxClicks
    /\ \E p \in PointerTargets :
        /\ pointer' = PointerAfterMove(p[1], p[2])
        /\ last_mouse_position' = TrackedAfterMove(p[1], p[2])
        /\ click_log' = IF ClicksAfterMove(p[1], p[2])
                        THEN Append(click_log, <<p, pointer'>>)
                        ELSE click_log
    /\ UNCHANGED <<schedVars, mouseVars, execVars, ext_calls>>
    /\ UNCHANGED <<browserVars, gateVars, fmtVars, agentVars, poolVars>>
    /\ UNCHANGED othersOfPointer

PointerNext ==
    \/ move_mouse_to
    \/ click_at

PointerSpecInit ==
    /\ SchedInit
    /\ MouseQuiet
    /\ ExecInit
    /\ ext_calls = {}
    /\ BrowserInit
    /\ GateInit
    /\ FmtInit
    /\ AgentInit
    /\ PoolInit
    /\ RestInit

\* A caller of the browser's two pointer methods.
SpecPointer == PointerSpecInit /\ [][PointerNext]_vars


(***************************************************************************)
(*                     ErrorController.handle_error                        *)
(***************************************************************************)

\* The ErrorController(max_retries, initial_retry_delay, backoff_factor)
\* instances of the model.
Controllers ==
    [max_retries : {0, 1, 2, 3}, initial_retry_delay : {1, 2}, backoff_factor : {1, 2, 3}]

\* How a retry_callback() call can end.
CallbackOutcomes == {"returned", "raised"}

SameDelay(delay, factor) == delay

\* delay *= self.backoff_factor
NextDelay(delay, factor) == delay * factor

\* handle_error(error, context, retry_callback): without a callback it
\* returns False at once; with one, delay = self.initial_retry_delay and the
\* loop starts at attempt 1.
HandleErrorCall ==
    /\ hpc = "idle"
    /\ IF hcallback
       THEN /\ hpc' = "loop"
            /\ hdelay' = ec.initial_retry_delay
            /\ hattempt' = 1
            /\ hret' = hret
       ELSE /\ hpc' = "done"
            /\ hret' = "false"
            /\ UNCHANGED <<hdelay, hattempt>>
    /\ UNCHANGED <<ec, hcallback, hsleeps, houtcomes>>
    /\ UNCHANGED <<schedVars, mouseVars, execVars, ext_calls>>
    /\ UNCHANGED <<browserVars, gateVars, fmtVars, agentVars, poolVars>>
    /\ UNCHANGED othersOfHandle

\* `for attempt in range(1, self.max_retries + 1)`: time.sleep(delay), or,
\* after the last attempt, return False.
HandleErrorSleep ==
    /\ hpc = "loop"
    /\ IF hattempt <= ec.max_retries
       THEN /\ hsleeps' = Append(hsleeps, hdelay)
            /\ hpc' = "callback"
            /\ hret' = hret
       ELSE /\ hpc' = "done"
            /\ hret' = "false"
            /\ hsleeps' = hsleeps
    /\ UNCHANGED <<ec, hcallback, hattempt, hdelay, houtcomes>>
    /\ UNCHANGED <<schedVars, mouseVars, execVars, ext_calls>>
    /\ UNCHANGED <<browserVars, gateVars, fmtVars, agentVars, poolVars>>
    /\ UNCHANGED othersOfHandle

\* retry_callback(): when it returns, handle_error returns True; when it
\* raises, the delay is multiplied and the next attempt starts.
HandleErrorRetry ==
    /\ hpc = "callback"
    /\ \E o \in CallbackOutcomes :
        /\ houtcomes' = Append(houtcomes, o)
        /\ IF o = "returned"
           THEN /\ hpc' = "done"
                /\ hret' = "true"
                /\ UNCHANGED <<hdelay, hattempt>>
           ELSE /\ hdelay' = NextDelay(hdelay, ec.backoff_factor)
                /\ hattempt' = hattempt + 1
                /\ hpc' = "loop"
                /\ hret' = hret
    /\ UNCHANGED <<ec, hcallback, hsleeps>>
    /\ UNCHANGED <<schedVars, mouseVars, execVars, ext_calls>>
    /\ UNCHANGED <<browserVars, gateVars, fmtVars, agentVars, poolVars>>
    /\ UNCHANGED othersOfHandle

HandleNext ==
    \/ HandleErrorCall
    \/ HandleErrorSleep
    \/ HandleErrorRetry

\* An ErrorController of any configuration, about to be called with or
\* without a retry callback.
HandleAnyInit ==
    /\ ec \in Controllers
    /\ hcallback \in BOOLEAN
    /\ hpc = "idle"
    /\ hattempt = 0
    /\ hdelay = 0
    /\ hret = "none"
    /\ hsleeps = <<>>
    /\ houtcomes = <<>>

HandleSpecInit ==
    /\ SchedInit
    /\ MouseQuiet
    /\ ExecInit
    /\ ext_calls = {}
    /\ BrowserInit
    /\ GateInit
    /\ FmtInit
    /\ AgentInit
    /\ PoolInit
    /\ MoveInit
    /\ PointerInit
    /\ HandleAnyInit
    /\ StopInit
    /\ RetryInit
    /\ ManagerInit
    /\ MetricsInit

\* One call of handle_error.
SpecHandle == HandleSpecInit /\ [][HandleNext]_vars


(***************************************************************************)
(*            retry_task (tests/test_continue_in_browser.py)               *)
(***************************************************************************)

\* What mouse.get_position() gives retry_task as current_pos.
RetryPositions == {Center, <<Px(10), Px(10)>>}

\* How nlp_mouse_controller.execute_command(result) ends for retry_task:
\* True, or False.
ExecuteOutcomes == {"true", "false"}

\* test_continue_in_browser calls retry_task.
RetryTaskCall ==
    /\ rt_pc = "idle"
    /\ rt_depth = 0
    /\ rt_depth' = 1
    /\ rt_pc' = "execute"
    /\ UNCHANGED <<rt_history, rt_attempts>>
    /\ UNCHANGED <<schedVars, mouseVars, execVars, ext_calls>>
    /\ UNCHANGED <<browserVars, gateVars, fmtVars, agentVars, poolVars>>
    /\ UNCHANGED othersOfRetry

\* retry_task up to the test of `success`: annotate, ask the oracle, execute.
\* On success this call and all its callers return; on failure current_pos is
\* appended to history and retry_task calls itself, which at the recursion
\* limit raises RecursionError through every caller.
RetryTaskExecute ==
    /\ rt_pc = "execute"
    /\ \E o \in ExecuteOutcomes, current_pos \in RetryPositions :
        /\ rt_attempts' = Append(rt_attempts, o)
        /\ IF o = "true"
           THEN /\ rt_pc' = "returned"
                /\ rt_depth' = 0
                /\ rt_history' = rt_history
           ELSE /\ rt_history' = Append(rt_history, current_pos)
                /\ IF rt_depth < RecursionLimit
                   THEN rt_depth' = rt_depth + 1 /\ rt_pc' = "execute"
                   ELSE rt_depth' = 0 /\ rt_pc' = "raised"
    /\ UNCHANGED <<schedVars, mouseVars, execVars, ext_calls>>
    /\ UNCHANGED <<browserVars, gateVars, fmtVars, agentVars, poolVars>>
    /\ UNCHANGED othersOfRetry

RetryNext ==
    \/ RetryTaskCall
    \/ RetryTaskExecute

RetrySpecInit ==
    /\ SchedInit
    /\ MouseQuiet
    /\ ExecInit
    /\ ext_calls = {}
    /\ BrowserInit
    /\ GateInit
    /\ FmtInit
    /\ AgentInit
    /\ PoolInit
    /\ RestInit

\* test_continue_in_browser from its call of retry_task on.
SpecRetry == RetrySpecInit /\ [][RetryNext]_vars


(***************************************************************************)
(*                          TaskManager.run_tasks                          *)
(***************************************************************************)

\* Bounds of the model: how many tasks were added, how often run_tasks is
\* called.
MaxManagerTasks == 2
MaxRuns == 2

\* The max_retries run_tasks is called with (3 by default).
RetryLimits == {0, 1, 3}

\* How verify_task_completion can end for a current task.
VerifyOutcomes == {verify_task_completion(r, TRUE) : r \in CompletionReplies}

OneMoreAttempt(n, limit) == n <= limit

\* while retries < max_retries
MayAttempt(n, limit) == n < limit

SkipOne(i) == i + 2

\* self.current_task_index += 1
NextIndex(i) == i + 1

\* run_tasks(max_retries) is called.
manager_run_tasks ==
    /\ tm_pc \in {"idle", "returned", "raised"}
    /\ tm_runs < MaxRuns
    /\ tm_runs' = tm_runs + 1
    /\ \E m \in RetryLimits : tm_max' = m
    /\ tm_executions' = [i \in 1..Len(tm_completed) |-> 0]
    /\ tm_ret' = "none"
    /\ tm_log' = <<>>
    /\ tm_pc' = "outer"
    /\ UNCHANGED <<tm_completed, current_task_index, tm_retries, tm_task>>
    /\ UNCHANGED <<schedVars, mouseVars, execVars, ext_calls>>
    /\ UNCHANGED <<browserVars, gateVars, fmtVars, agentVars, poolVars>>
    /\ UNCHANGED othersOfManager

\* `while self.current_task_index < len(self.tasks)`: current_task and
\* retries = 0, or `return True`.
ManagerOuter ==
    /\ tm_pc = "outer"
    /\ IF current_task_index < Len(tm_completed)
       THEN /\ tm_task' = current_task_index + 1
            /\ tm_retries' = 0
            /\ tm_pc' = "inner"
            /\ tm_ret' = tm_ret
       ELSE /\ tm_pc' = "returned"
            /\ tm_ret' = "true"
            /\ UNCHANGED <<tm_task, tm_retries>>
    /\ UNCHANGED <<tm_completed, current_task_index, tm_max, tm_runs,
                   tm_executions, tm_log>>
    /\ UNCHANGED <<schedVars, mouseVars, execVars, ext_calls>>
    /\ UNCHANGED <<browserVars, gateVars, fmtVars, agentVars, poolVars>>
    /\ UNCHANGED othersOfManager

\* `while retries < max_retries` and, in its body, execute_current_task(),
\* which acts on self.tasks[self.current_task_index] and returns True or False
\* (it catches every exception).
ManagerExecute ==
    /\ tm_pc = "inner"
    /\ IF MayAttempt(tm_retries, tm_max)
       THEN \E o \in BOOLEAN :
              /\ tm_log' = Append(tm_log, <<current_task_index + 1, "execute", o>>)
              /\ tm_executions' =
                    [tm_executions EXCEPT ![current_task_index + 1] = @ + 1]
              /\ tm_pc' = IF o THEN "verify" ELSE "count"
       ELSE /\ tm_pc' = "after"
            /\ UNCHANGED <<tm_log, tm_executions>>
    /\ UNCHANGED <<tm_completed, current_task_index, tm_max, tm_retries, tm_task,
                   tm_ret, tm_runs>>
    /\ UNCHANGED <<schedVars, mouseVars, execVars, ext_calls>>
    /\ UNCHANGED <<browserVars, gateVars, fmtVars, agentVars, poolVars>>
    /\ UNCHANGED othersOfManager

\* verify_task_completion(): True marks current_task completed, advances the
\* index and leaves the inner loop; False goes on to `retries += 1`; an
\* exception leaves run_tasks.
ManagerVerify ==
    /\ tm_pc = "verify"
    /\ \E o \in VerifyOutcomes :
        /\ tm_log' = Append(tm_log, <<current_task_index + 1, "verify", o = "true">>)
        /\ CASE o = "true" ->
                  /\ tm_completed' = [tm_completed EXCEPT ![tm_task] = TRUE]
                  /\ current_task_index' = NextIndex(current_task_index)
                  /\ tm_pc' = "after"
                  /\ tm_ret' = tm_ret
             [] o = "false" ->
                  /\ tm_pc' = "count"
                  /\ UNCHANGED <<tm_completed, current_task_index, tm_ret>>
             [] o = "raised" ->
                  /\ tm_pc' = "raised"
                  /\ tm_ret' = "raised"
                  /\ UNCHANGED <<tm_completed, current_task_index>>
    /\ UNCHANGED <<tm_max, tm_retries, tm_task, tm_runs, tm_executions>>
    /\ UNCHANGED <<schedVars, mouseVars, execVars, ext_calls>>
    /\ UNCHANGED <<browserVars, gateVars, fmtVars, agentVars, poolVars>>
    /\ UNCHANGED othersOfManager

\* retries += 1 (and the sleep before the next attempt)
ManagerCount ==
    /\ tm_pc = "count"
    /\ tm_retries' = tm_retries + 1
    /\ tm_pc' = "inner"
    /\ UNCHANGED <<tm_completed, current_task_index, tm_max, tm_task, tm_ret,
                   tm_runs, tm_executions, tm_log>>
    /\ UNCHANGED <<schedVars, mouseVars, execVars, ext_calls>>
    /\ UNCHANGED <<browserVars, gateVars, fmtVars, agentVars, poolVars>>
    /\ UNCHANGED othersOfManager

\* `if retries == max_retries and not current_task.completed: return False`
ManagerAfter ==
    /\ tm_pc = "after"
    /\ IF tm_retries = tm_max /\ ~tm_completed[tm_task]
       THEN tm_pc' = "returned" /\ tm_ret' = "false"
       ELSE tm_pc' = "outer" /\ tm_ret' = tm_ret
    /\ UNCHANGED <<tm_completed, current_task_index, tm_max, tm_retries, tm_task,
                   tm_runs, tm_executions, tm_log>>
    /\ UNCHANGED <<schedVars, mouseVars, execVars, ext_calls>>
    /\ UNCHANGED <<browserVars, gateVars, fmtVars, agentVars, poolVars>>
    /\ UNCHANGED othersOfManager

ManagerNext ==
    \/ manager_run_tasks
    \/ ManagerOuter
    \/ ManagerExecute
    \/ ManagerVerify
    \/ ManagerCount
    \/ ManagerAfter

\* A TaskManager to which up to MaxManagerTasks tasks were added.
ManagerLoadedInit ==
    /\ tm_completed \in {[i \in 1..n |-> FALSE] : n \in 0..MaxManagerTasks}
    /\ current_task_index = 0
    /\ tm_pc = "idle"
    /\ tm_max = 0
    /\ tm_retries = 0
    /\ tm_task = 0
    /\ tm_ret = "none"
    /\ tm_runs = 0
    /\ tm_executions = [i \in 1..Len(tm_completed) |-> 0]
    /\ tm_log = <<>>

ManagerSpecInit ==
    /\ SchedInit
    /\ MouseQuiet
    /\ ExecInit
    /\ ext_calls = {}
    /\ BrowserInit
    /\ GateInit
    /\ FmtInit
    /\ AgentInit
    /\ PoolInit
    /\ MoveInit
    /\ PointerInit
    /\ HandleInit
    /\ RetryInit
    /\ StopInit
    /\ ManagerLoadedInit
    /\ MetricsInit

\* Callers of run_tasks on a loaded TaskManager.
SpecManager == ManagerSpecInit /\ [][ManagerNext]_vars


(***************************************************************************)
(*                   FlowController: the running average                   *)
(***************************************************************************)

\* Bound of the model: how many tasks the worker brings to an end.
MaxTimed == 4

\* The processing times (time.time() differences) of the model, in seconds.
ProcessingTimes == {1, 2, 5}

\* _update_metrics(processing_time): the new average_processing_time, from
\* total = tasks_processed + tasks_failed as they are when it is called
update_metrics(processing_time) ==
    LET total == tasks_processed + tasks_failed
        current_avg == average_processing_time
    IN  IF total = 0 THEN Whole(processing_time)
        ELSE Frac(current_avg[1] * (total - 1) + processing_time * current_avg[2],
                  current_avg[2] * total)

\* _task_worker, lines 100-105: process_task_with_retries returned (the task
\* succeeded or was dead-lettered); the elapsed time goes to _update_metrics,
\* then tasks_processed is incremented.
WorkerTimed ==
    /\ tasks_processed + tasks_failed < MaxTimed
    /\ \E elapsed \in ProcessingTimes :
        /\ average_processing_time' = update_metrics(elapsed)
        /\ timed' = Append(timed, elapsed)
    /\ tasks_processed' = tasks_processed + 1
    /\ UNCHANGED <<task_queue, queue_lock, total_tasks, shutdown_event,
                   task_thread, dead_letter_queue, tasks_failed, wpc, task,
                   retries, jpc, attempts, delays, dequeued, terminal,
                   popsAfterShutdown, wpcAtShutdown>>
    /\ UNCHANGED <<mouseVars, execVars, ext_calls>>
    /\ UNCHANGED <<browserVars, gateVars, fmtVars, agentVars, poolVars>>
    /\ UNCHANGED othersOfMetrics

\* _task_worker, lines 106-113: process_task_with_retries raised; the task is
\* counted as failed and not timed.
WorkerUntimed ==
    /\ tasks_processed + tasks_failed < MaxTimed
    /\ tasks_failed' = tasks_failed + 1
    /\ UNCHANGED <<average_processing_time, timed>>
    /\ UNCHANGED <<task_queue, queue_lock, total_tasks, shutdown_event,
                   task_thread, dead_letter_queue, tasks_processed, wpc, task,
                   retries, jpc, attempts, delays, dequeued, terminal,
                   popsAfterShutdown, wpcAtShutdown>>
    /\ UNCHANGED <<mouseVars, execVars, ext_calls>>
    /\ UNCHANGED <<browserVars, gateVars, fmtVars, agentVars, poolVars>>
    /\ UNCHANGED othersOfMetrics

MetricsNext ==
    \/ WorkerTimed
    \/ WorkerUntimed

MetricsSpecInit ==
    /\ SchedInit
    /\ MouseQuiet
    /\ ExecInit
    /\ ext_calls = {}
    /\ BrowserInit
    /\ GateInit
    /\ FmtInit
    /\ AgentInit
    /\ PoolInit
    /\ RestInit

\* The worker's bookkeeping at the end of each task.
SpecMetrics == MetricsSpecInit /\ [][MetricsNext]_vars


StopNext ==
    \/ KeepAliveNext
    \/ KeepAliveExit
    \/ StopCall
    \/ StopJoin

\* The keep-alive thread on a target of any kind, and a thread that may call
\* stop() at any moment.
StopSpecInit ==
    /\ SchedInit
    /\ MouseInit
    /\ surf_pos \in StartPositions
    /\ surface \in {"reliable", "faulty", "bare"}
    /\ pings = MaxPings + 1
    /\ script = <<>>
    /\ tracing = FALSE
    /\ ExecInit
    /\ ext_calls = {}
    /\ BrowserInit
    /\ GateInit
    /\ FmtInit
    /\ AgentInit
    /\ PoolInit
    /\ RestInit

SpecStop == StopSpecInit /\ [][StopNext]_vars

\* Both threads are scheduled: the keep-alive thread takes its next step
\* (calls return, sleeps end) and join returns once the thread has ended.
\* Nothing obliges anybody to call stop().
SpecStopFair ==
    /\ SpecStop
    /\ WF_vars(KeepAliveNext \/ KeepAliveExit)
    /\ WF_vars(StopJoin)


(***************************************************************************)
(*                            Specifications                               *)
(***************************************************************************)

MouseNext ==
    \/ ScriptCall
    \/ ScriptReturn
    \/ MouseCallNext
    \/ KeepAliveNext

\* A thread calling the mouse while the keep-alive thread runs, on a surface
\* whose primitives succeed.
MouseSpecInit ==
    /\ SchedInit
    /\ MouseScenarioInit
    /\ ExecInit
    /\ ext_calls = {}
    /\ BrowserInit
    /\ GateInit
    /\ FmtInit
    /\ AgentInit
    /\ PoolInit
    /\ RestInit

SpecMouse == MouseSpecInit /\ [][MouseNext]_vars

SurfaceSpecInit ==
    /\ SchedInit
    /\ MouseReachInit
    /\ ExecInit
    /\ ext_calls = {}
    /\ BrowserInit
    /\ GateInit
    /\ FmtInit
    /\ AgentInit
    /\ PoolInit
    /\ RestInit

\* The same threads, with targets anywhere and a target of any kind.
SpecSurface == SurfaceSpecInit /\ [][MouseNext]_vars

ExecNext ==
    \/ ExecCall
    \/ ExecLoop
    \/ ExecValidate
    \/ ExecRegenerate
    \/ ExecParse
    \/ ExecAfterMove
    \/ ExecVerify
    \/ ExecAct
    \/ ExecAfterClick
    \/ ExecVerifyClick
    \/ MouseCallNext

ExecSpecInit ==
    /\ SchedInit
    /\ MouseForExec
    /\ ExecInit
    /\ ext_calls = {}
    /\ BrowserInit
    /\ GateInit
    /\ FmtInit
    /\ AgentInit
    /\ PoolInit
    /\ RestInit

\* One call of execute_command, with the mouse and the surface under it.
SpecExec == ExecSpecInit /\ [][ExecNext]_vars

\* The scheduler alone: callers adding tasks, run_tasks, shutdown, a joiner.
SchedSpecInit ==
    /\ SchedInit
    /\ MouseQuiet
    /\ ExecInit
    /\ ext_calls = {}
    /\ BrowserInit
    /\ GateInit
    /\ FmtInit
    /\ AgentInit
    /\ PoolInit
    /\ RestInit

SpecSched == SchedSpecInit /\ [][SchedNext]_vars

\* The worker thread and the joining caller are scheduled: a step of theirs that
\* stays possible is eventually taken. (Every worker step, once possible, stays
\* possible until the worker takes it: only the worker ever holds queue_lock.)
SpecSchedFair == SpecSched /\ WF_vars(WorkerNext) /\ WF_vars(WaitReturn)

\* The scheduler with run_tasks() called up to twice.
SpecPool == SchedSpecInit /\ [][PoolNext]_vars

GateNext ==
    \/ ElementCall
    \/ ElementLocate
    \/ ElementVerify
    \/ ElementAct
    \/ ElementReturn
    \/ VerifyTaskCompletion

GateSpecInit ==
    /\ SchedInit
    /\ MouseQuiet
    /\ ExecInit
    /\ ext_calls = {}
    /\ BrowserInit
    /\ GateInit
    /\ FmtInit
    /\ AgentInit
    /\ PoolInit
    /\ RestInit

\* TaskManager running element functions and checking their completion.
SpecGate == GateSpecInit /\ [][GateNext]_vars

HelperNext ==
    \/ HelperVerify
    \/ HelperNote
    \/ reset_history

HelperSpecInit ==
    /\ SchedInit
    /\ MouseQuiet
    /\ ExecInit
    /\ ext_calls = {}
    /\ BrowserInit
    /\ gpc = "idle"
    /\ gfun = "click_element"
    /\ attempt = 0
    /\ gxy = <<Whole(0), Whole(0)>>
    /\ confidence = Gives(0, FALSE)
    /\ gresult = "none"
    /\ gate_log = <<>>
    /\ response = NoReply
    /\ completion = [reply |-> NoReply, has_task |-> FALSE, outcome |-> "none"]
    /\ HelperInit
    /\ FmtInit
    /\ AgentInit
    /\ PoolInit
    /\ RestInit

\* One MouseControllerHelper and the operations on its movement_history.
SpecHelper == HelperSpecInit /\ [][HelperNext]_vars

FormatNext == FormatCall

FormatSpecInit ==
    /\ SchedInit
    /\ MouseQuiet
    /\ ExecInit
    /\ ext_calls = {}
    /\ BrowserInit
    /\ GateInit
    /\ FormatInit
    /\ AgentInit
    /\ PoolInit
    /\ RestInit

\* format_command called once on each of the strings of FormatParts.
SpecFormat == FormatSpecInit /\ [][FormatNext]_vars

CoordNext == NormalizeCall

CoordSpecInit ==
    /\ SchedInit
    /\ MouseQuiet
    /\ ExecInit
    /\ ext_calls = {}
    /\ NormalizeInit
    /\ GateInit
    /\ FmtInit
    /\ AgentInit
    /\ PoolInit
    /\ RestInit

\* Chains of normalize_coordinates calls on one BrowserController.
SpecCoord == CoordSpecInit /\ [][CoordNext]_vars

AgentNext ==
    \/ GenerateCall
    \/ GenerateAsk
    \/ HandleRetry
    \/ HandleExhausted
    \/ GenerateReturn

AgentSpecInit ==
    /\ SchedInit
    /\ MouseQuiet
    /\ ExecInit
    /\ ext_calls = {}
    /\ BrowserInit
    /\ GateInit
    /\ FmtInit
    /\ AgentInit
    /\ PoolInit
    /\ RestInit

\* One call of TextAgent.generate_command, with every oracle.
SpecAgent == AgentSpecInit /\ [][AgentNext]_vars

(***************************************************************************)
(*                     Properties of the scheduler                         *)
(***************************************************************************)

Count(s, x) == Cardinality({i \in 1..Len(s) : s[i] = x})

AllTpe(s) == \A i \in 1..Len(s) : s[i] = "tpe"

\* The current task has left process_task_with_retries.
TaskOver == task # 0 /\ wpc \notin {"run", "backoff"}

Processed(t) == \E i \in 1..Len(terminal) : terminal[i][1] = t

FailedBefore == tasks_failed > 0 \/ dead_letter_queue # <<>>

IsPrefix(s, t) == Len(s) <= Len(t) /\ \A i \in 1..Len(s) : s[i] = t[i]

\* C1: a task whose every process_task call raises TaskProcessingError is
\* attempted exactly MAX_RETRIES times, the k-th failure being followed by a
\* sleep of retry_delay * 2^(k-1) (d, 2d, 4d, ...), and is then in the
\* dead-letter list exactly once.
C1_RetriesThenDeadLetter ==
    /\ AllTpe(attempts) =>
          /\ Len(attempts) <= MAX_RETRIES
          /\ Len(delays) = Len(attempts)
          /\ \A k \in 1..Len(delays) : delays[k] = retry_delay * 2^(k - 1)
    /\ (TaskOver /\ attempts # <<>> /\ AllTpe(attempts)) =>
          /\ Len(attempts) = MAX_RETRIES
          /\ Count(dead_letter_queue, task) = 1
    /\ \A t \in 1..total_tasks : Count(dead_letter_queue, t) <= 1

C1_Witness ==
    /\ TaskOver
    /\ AllTpe(attempts)
    /\ delays = <<2, 4, 8>>
    /\ dead_letter_queue = <<task>>

\* C5: once a task has been dead-lettered or has failed with an exception, the
\* worker still runs: every task waiting in the queue is eventually processed,
\* unless shutdown is requested first.
C5_WorkerSurvivesFailure ==
    \A t \in 1..MaxTasks :
        (FailedBefore /\ ~shutdown_event /\ Count(task_queue, t) > 0)
            ~> (Processed(t) \/ shutdown_event)

\* A task added after an earlier task failed has reached its terminal outcome.
C5_Witness ==
    \E i, j \in 1..Len(terminal) :
        /\ i < j
        /\ terminal[i][2] # "ok"
        /\ terminal[j][1] > terminal[i][3]
        /\ ~shutdown_event

\* C6: after shutdown() the worker pops at most one more task, and only if it
\* was already past the flag test; the task in flight reaches its terminal
\* outcome before the worker exits; after the exit nothing is popped any more,
\* so what is in task_queue stays there.
C6_ShutdownDoesNotDrain ==
    /\ [](/\ popsAfterShutdown <= 1
          /\ (popsAfterShutdown = 1 => wpcAtShutdown = "lock")
          /\ (wpc = "exit" => Len(terminal) = Len(dequeued)))
    /\ [][wpc = "exit" =>
              /\ wpc' = "exit"
              /\ dequeued' = dequeued
              /\ terminal' = terminal
              /\ IsPrefix(task_queue, task_queue')]_vars

C6_Witness ==
    /\ wpc = "exit"
    /\ popsAfterShutdown = 1
    /\ Len(attempts) = MAX_RETRIES
    /\ task_queue # <<>>

\* C7: once shutdown() has been called the worker thread exits and a caller
\* blocked in wait_for_completion() returns, also from the idle poll.
C7_ShutdownEndsWorker ==
    /\ (shutdown_event /\ wpc # "none") ~> (wpc = "exit")
    /\ (shutdown_event /\ jpc = "join") ~> (jpc = "back")

\* shutdown() came while the worker slept on an empty queue, and the join is over.
C7_Witness ==
    /\ wpcAtShutdown = "idle"
    /\ wpc = "exit"
    /\ jpc = "back"
    /\ task_thread # "none"

\* C8: tasks are popped in the order add_task appended them (the k-th task
\* added is named k, so the pops are 1, 2, 3, ...).
C8_FifoDequeue ==
    \A i \in 1..Len(dequeued) : dequeued[i] = i

\* Three pops, the last of a task that was added after the first pop.
C8_Witness ==
    /\ Len(dequeued) >= 3
    /\ Len(terminal) >= 1
    /\ terminal[1][3] < dequeued[3]

(***************************************************************************)
(*                        Properties of the mouse                          *)
(***************************************************************************)

MoveClickMove == <<MoveCall(10, 10), ClickCall, MoveCall(20, 20)>>

\* The surface hears the calls in the order they were made.
LogInCallOrder ==
    \A i \in 1..(Len(surface_log) - 1) :
        surface_log[i][1] <= surface_log[i + 1][1]

ReachedBefore(j, e) == \E i \in 1..(j - 1) : surface_log[i] = e

\* C10: after move_to(10,10), click(), move_to(20,20) the surface has received
\* move(10,10), then the click, then move(20,20): what it receives is in the
\* order of the calls, every click comes after the last waypoint (10,10) of
\* the first call, everything the third call sends comes after a click, and
\* once the third call has returned its last waypoint (20,20) has been sent.
C10_MoveClickMoveInOrder ==
    script = MoveClickMove =>
        /\ LogInCallOrder
        /\ \A j \in DOMAIN surface_log :
            /\ surface_log[j][2] = "click" =>
                   ReachedBefore(j, <<1, "move", <<Px(10), Px(10)>>>>)
            /\ surface_log[j][1] = 3 =>
                   ReachedBefore(j, <<2, "click", "left">>)
        /\ (callno = 3 /\ mpc \in {"ret", "idle"}) =>
               surface_log[Len(surface_log)] = <<3, "move", <<Px(20), Px(20)>>>>

\* The three calls have returned and the keep-alive thread has made its round.
C10_Witness ==
    /\ script = MoveClickMove
    /\ callno = 3
    /\ mpc = "idle"
    /\ pings = 0
    /\ kpc = "test"
    /\ clicks = 1
    /\ surf_pos = <<Px(20), Px(20)>>

(***************************************************************************)
(*                     Properties of execute_command                       *)
(***************************************************************************)

\* A reply that does not replace the command: None, '' or a string that
\* validate_command refuses.
Malformed(r) == ~(Truthy(r) /\ validate_command(r))

AllMalformed == \A i \in DOMAIN replies : Malformed(replies[i])

C3_Original ==
    epc = "done" =>
        /\ result \in {"true", "false"}
        /\ moveCalls <= max_regeneration_attempts

\* A double-click command on a reliable surface: the call ends with an
\* exception instead of a value.
C3_Raised ==
    /\ epc = "done"
    /\ surface = "reliable"
    /\ given = Cmd(10, 10, "double-click")
    /\ result = "raised"
    /\ moveCalls = 1

ClickAt400x300 == Cmd(400, 300, "click")

C11_Original == \A c \in ext_calls : c[2] = {}

\* get_position asked the surface for its cursor inside
\* `with self.position_lock:`.
C11_LockedCall ==
    /\ <<"get_mouse_position", {"position_lock"}>> \in ext_calls
    /\ <<"move_mouse", {}>> \in ext_calls

(***************************************************************************)
(*                 Properties of Mouse.move_to and click                   *)
(***************************************************************************)

\* C12 as stated: a call of move_to or click during which a surface primitive
\* returned False or raised returns False.
C12_Original == (mpc = "ret" /\ mfaults # {}) => mret = "false"

\* click returned True although the move_mouse call that puts the surface's
\* cursor on the click position returned False.
C12_ClickHidesFailedMove ==
    /\ mpc = "ret"
    /\ epc = "clicking"
    /\ mret = "true"
    /\ mfaults = {<<"move_mouse", "fail">>}
    /\ clicks = 1

(***************************************************************************)
(*           Properties of the verification before an action               *)
(***************************************************************************)

NotAConfidenceObject(r) ==
    /\ r.form = "str"
    /\ \/ r.json \in {"bad", "other"}
       \/ r.conf[1] \in {"missing", "text", "null"}

\* C14 as stated: for every reply that is not a parseable confidence object,
\* verify_mouse_position (task_manager.py and click_continue_in_browser.py)
\* returns confidence 0 and raises nothing.
C14_Original ==
    (/\ hist_op.op = "verify"
     /\ hist_op.class \in {"task_manager", "click_continue_in_browser"}
     /\ NotAConfidenceObject(hist_op.reply)) =>
        /\ ~hist_op.outcome.raised
        /\ hist_op.outcome.value = 0

\* The oracle answered with JSON that is not an object and
\* verify_mouse_position of task_manager.py raised.
C14_Raised ==
    /\ hist_op.op = "verify"
    /\ hist_op.class = "task_manager"
    /\ hist_op.reply = Reply("str", "other", NoConf, "missing")
    /\ hist_op.outcome.raised

\* C15 as stated: every call of verify_mouse_position (click_continue_in_browser.py
\* and qwenvl_test.py) leaves movement_history one record longer, whatever the
\* oracle returned, and no operation but reset_history changes or removes a
\* record that was there.
C15_Original ==
    /\ (hist_op.op = "verify" /\ hist_op.class # "task_manager") =>
           Len(movement_history) = Len(hist_before) + 1
    /\ hist_op.op # "reset" => IsPrefix(hist_before, movement_history)

\* verify_mouse_position of click_continue_in_browser.py raised on the
\* oracle's reply and left movement_history as it was.
C15_NothingAppended ==
    /\ hist_op.op = "verify"
    /\ hist_op.class = "click_continue_in_browser"
    /\ hist_op.reply.form = "str"
    /\ hist_op.outcome.raised
    /\ movement_history = hist_before
    /\ Len(movement_history) = 1

(***************************************************************************)
(*                     Properties of format_command                        *)
(***************************************************************************)

AllDigits(d) == \A i \in 1..Len(d) : d[i] \in {"0", "1", "2", "3", "4", "5", "6", "7", "8", "9"}

\* a numeral of one to four digits
ShortNumeral(d) == Len(d) \in 1..4 /\ AllDigits(d)

\* the pieces spell 'move to (<x>,<y>)' with an optional ' and <action>', in
\* either case, with no white space but around the comma and single spaces
\* around 'and'
FourForms(p) ==
    /\ lower(p.head) = MoveToText
    /\ ShortNumeral(p.x)
    /\ ShortNumeral(p.y)
    /\ p.padL = <<>>
    /\ p.padR = <<>>
    /\ p.close = <<")">>
    /\ p.tail \in PlainTails

\* the same, with white space also allowed next to the parentheses and any
\* run of white space around 'and'
SpacedForms(p) ==
    /\ lower(p.head) = MoveToText
    /\ ShortNumeral(p.x)
    /\ ShortNumeral(p.y)
    /\ p.close = <<")">>
    /\ p.tail \in PlainTails \cup SpacedTails

\* what format_command returns for 'go to (12,34)', a string outside the grammar
ReturnedForMalformed ==
    FormatCommandText(<<"g", "o", " ", "t", "o", " ", "(", "1", "2", ",", "3", "4", ")">>)

OutsideBox(p) == int(p.x) > FormatMaxX \/ int(p.y) > FormatMaxY

\* C16 as stated: a command of the grammar whose coordinates lie outside
\* 1000x600 is rejected, the value returned for it differs from the value
\* returned for a string outside the grammar (so that the caller can tell the
\* two failures apart), and a command that is returned carries the
\* coordinates of the input.
C16_Original ==
    fmt_out.called =>
        /\ (SpacedForms(fmt_parts) /\ OutsideBox(fmt_parts)) =>
               /\ fmt_out.none
               /\ [fmt_out EXCEPT !.logged = "nothing"]
                      # [ReturnedForMalformed EXCEPT !.logged = "nothing"]
        /\ ~fmt_out.none =>
               LET back == fullmatch(fmt_out.text)
               IN  /\ back.matched
                   /\ int(back.g1) = int(fmt_parts.x)
                   /\ int(back.g2) = int(fmt_parts.y)

\* 'move to (1001, 599)' was rejected with None, the value also returned for
\* a string outside the grammar; only the line in the log differs.
C16_SameNone ==
    /\ fmt_in = <<"m", "o", "v", "e", " ", "t", "o", " ", "(", "1", "0", "0", "1", ",", " ", "5", "9", "9", ")">>
    /\ fmt_out.called
    /\ fmt_out.none
    /\ fmt_out.logged = "coordinates out of bounds"
    /\ ReturnedForMalformed.none
    /\ ReturnedForMalformed.logged = "does not match expected format"

Ended(kinds) ==
    Cardinality({i \in 1..Len(terminal) : terminal[i][2] \in kinds})

\* C18 as stated: each task that reached its terminal outcome has been counted
\* once, in tasks_processed if and only if its processing succeeded and in
\* tasks_failed if it was dead-lettered or its processing raised.
C18_Original ==
    /\ tasks_processed + tasks_failed = Len(terminal)
    /\ tasks_processed = Ended({"ok"})
    /\ tasks_failed = Ended({"dead", "exc"})

\* The first task was dead-lettered and is counted as processed, not failed.
C18_DeadLetterCountedAsProcessed ==
    /\ Len(terminal) = 1
    /\ terminal[1][2] = "dead"
    /\ Len(dead_letter_queue) = 1
    /\ tasks_processed = 1
    /\ tasks_failed = 0

(***************************************************************************)
(*                  Properties of normalize_coordinates                    *)
(***************************************************************************)

\* the k-th call returned, as the pair of int() of its coordinates
Pixel(k) ==
    <<IntOf(conv_out[k].x, conv_out[k].low[1]),
      IntOf(conv_out[k].y, conv_out[k].low[2])>>

\* three calls were made and returned
RoundTripDone == Len(conv_out) >= 3 /\ ~conv_out[3].raised

\* C19: for (x, y) within the screenshot, converting to the viewport, back to
\* the screenshot and to the viewport again gives, after int(), the pixel of
\* the first conversion or one next to it, in x and in y.
C19_RoundTripWithinOnePixel ==
    (conv_dir /\ RoundTripDone) =>
        /\ Distance(Pixel(3)[1], Pixel(1)[1]) <= 1
        /\ Distance(Pixel(3)[2], Pixel(1)[2]) <= 1

\* A round trip from (333, 1008) on the 800x600 viewport: the screenshot point
\* goes to the pixel (264, 600), back to (333, 1008) and to (264, 600) again.
C19_Witness ==
    /\ conv_dir
    /\ RoundTripDone
    /\ conv_in = <<Whole(333), Whole(1008)>>
    /\ viewport_width = 800 /\ viewport_height = 600
    /\ Pixel(1) = <<264, 600>>
    /\ <<conv_out[2].x, conv_out[2].y>> = conv_in
    /\ Pixel(3) = <<264, 600>>

AnyDimensionZero ==
    \/ viewport_width = 0
    \/ viewport_height = 0
    \/ screenshot_width = 0
    \/ screenshot_height = 0

\* C20 as stated: with a dimension that is 0, no call of normalize_coordinates,
\* in either direction, returns a coordinate: each raises.
C20_Original ==
    AnyDimensionZero => \A k \in 1..Len(conv_out) : conv_out[k].raised

\* With viewport_width = 0 the conversion from the screenshot returned x = 0
\* for x = 504.
C20_SilentZero ==
    /\ viewport_width = 0
    /\ conv_dir
    /\ conv_in[1] = Whole(504)
    /\ Len(conv_out) >= 1
    /\ ~conv_out[1].raised
    /\ conv_out[1].x = Whole(0)

(***************************************************************************)
(*                    Properties of generate_command                       *)
(***************************************************************************)

\* C21 as stated: one generate_command call asks the oracle at most
\* 1 + max_retries times, never has more than that many generate_command
\* calls nested in one another, and returns a command or the empty string.
C21_Original ==
    /\ gen_calls <= 1 + max_retries
    /\ Len(gen_stack) <= 1 + max_retries
    /\ gen_result \in {"none", "command", "empty"}

\* The oracle gave off-grammar text every time and generate_command has
\* called itself until the stack was full.
C21_RecursionToTheLimit ==
    /\ Len(gen_stack) = RecursionLimit
    /\ gen_calls = RecursionLimit
    /\ \A i \in 1..Len(gen_log) : gen_log[i] = "mismatch"

(***************************************************************************)
(*                 Properties of the scheduler's threads                   *)
(***************************************************************************)

Processing(pc) == pc \in {"run", "backoff"}

\* C22 as stated: at no time are two tasks being processed, whatever the
\* calls of add_task, run_tasks and shutdown, run_tasks called twice included.
C22_Original == ~(Processing(wpc) /\ Processing(w2pc))

\* After two run_tasks() calls each thread has popped a task of its own and
\* both are inside process_task_with_retries.
C22_TwoTasksAtOnce ==
    /\ task_thread = "worker2"
    /\ wpc = "run"
    /\ w2pc = "run"
    /\ task # task2

(***************************************************************************)
(*                 Properties of the keep-alive thread                     *)
(***************************************************************************)

\* The latest call of the scenario was a move_to, it returned True and no
\* other call has been made since.
MoveReturnedTrue ==
    /\ callno >= 1
    /\ script[callno].op = "move_to"
    /\ mpc \in {"ret", "idle"}
    /\ mret = "true"

\* C23 as stated: once move_to has returned True, and until the next call,
\* the surface's cursor is at the clamped target and so is the tracked
\* position, whatever the keep-alive thread did in between.
C23_Original == MoveReturnedTrue => (surf_pos = mtarget /\ position = mtarget)

\* The keep-alive thread read the tracked position while move_to was on its
\* path and sent it to the surface after move_to had returned True: the
\* surface's cursor is back on that waypoint.
C23_StaleWaypoint ==
    /\ MoveReturnedTrue
    /\ position = mtarget
    /\ kpc = "sleep"
    /\ surf_pos = kpos
    /\ surf_pos # mtarget

(***************************************************************************)
(*                       Properties of queue_lock                          *)
(***************************************************************************)

\* C24 as stated: the worker holds queue_lock only while it appends or pops,
\* never during its idle sleep or while it processes a task.
C24_Original ==
    queue_lock = "worker" => wpc \notin {"idle", "run", "backoff"}

\* The worker sleeps its idle second inside `with self.queue_lock:`: the lock
\* is taken, and add_task, which needs it, cannot proceed although a task is
\* still to be added.
C24_SleepingWithTheLock ==
    /\ wpc = "idle"
    /\ queue_lock = "worker"
    /\ total_tasks < MaxTasks
    /\ ~ENABLED add_task

(***************************************************************************)
(*                  Properties of the scheduler's counts                   *)
(***************************************************************************)

\* how many tasks the worker is processing
BeingProcessed == IF Processing(wpc) THEN 1 ELSE 0

\* C25: with one worker, in every state, total_tasks is the number of tasks
\* in the queue, plus the task being processed if there is one, plus
\* tasks_processed, plus tasks_failed.
C25_EveryTaskCountedOnce ==
    total_tasks = Len(task_queue) + BeingProcessed + tasks_processed + tasks_failed

\* Three tasks added: the first counted as failed, the second in process, the
\* third in the queue.
C25_Witness ==
    /\ total_tasks = 3
    /\ Len(task_queue) = 1
    /\ BeingProcessed = 1
    /\ tasks_processed + tasks_failed = 1
    /\ tasks_failed = 1

PressesOf(a) ==
    CASE a = "none" -> 0
      [] a = "click" -> 1
      [] a = "double-click" -> 2
      [] a = "right-click" -> 1

\* C28 as stated: execute_command never ends with an exception, whatever the
\* action form; and when it returns True on a surface that does what it is
\* told, the surface has been clicked as the form says: not at all, once or
\* twice with the left button, once with the right button.
C28_Original ==
    epc = "done" =>
        /\ result # "raised"
        /\ (result = "true" /\ surface = "reliable") =>
               /\ clicks = PressesOf(parsed[3])
               /\ parsed[3] = "right-click" => mbutton = "right"

\* 'move to (400, 300) and right-click' on a reliable surface: the pointer
\* was moved, no button was pressed, and the call ended with an exception.
C28_RightClickRaised ==
    /\ epc = "done"
    /\ surface = "reliable"
    /\ given = Cmd(400, 300, "right-click")
    /\ position = <<Px(400), Px(300)>>
    /\ clicks = 0
    /\ result = "raised"

\* C29 as stated: every command execute_command parses and moves to is one
\* that format_command accepts (numerals of at most 4 digits, inside the
\* 1000 x 600 box), whether the caller gave it or regeneration returned it.
C29_Original == \A c \in executed : format_command(c) # NoneValue

\* 'move to (1001,599)' passes validate_command, so format_command is never
\* asked; the command is parsed, clamped to the viewport and moved to.
C29_RejectedCommandMovedTo ==
    /\ epc = "done"
    /\ surface = "reliable"
    /\ given = Cmd(1001, 599, "none")
    /\ format_command(given) = NoneValue
    /\ given \in executed
    /\ replies = <<>>
    /\ position = <<Px(Width), Px(599)>>
    /\ result = "true"

\* Mouse.movement_tolerance, in pixels
movement_tolerance == 2

\* p is no further than movement_tolerance from (x, y) on either axis
WithinTolerance(p, x, y) ==
    /\ Distance(p[1], Px(x)) <= Px(movement_tolerance)
    /\ Distance(p[2], Px(y)) <= Px(movement_tolerance)

\* C30 as stated: the position check of execute_command counts a failed
\* attempt exactly when the position reported after the move is further than
\* movement_tolerance from the target; a report within the tolerance leaves
\* retry_attempts as it was.
C30_Original ==
    [][(epc = "verify" /\ epc' # "verify") =>
          IF WithinTolerance(position', parsed[1], parsed[2])
          THEN retry_attempts' = retry_attempts
          ELSE retry_attempts' = retry_attempts + 1]_vars

\* 'move to (10,10)': move_to returned True, the surface then reported
\* (11, 10), one pixel from the target, and the attempt was counted as failed.
C30_OnePixelOffCounted ==
    /\ epc = "loop"
    /\ given = Cmd(10, 10, "none")
    /\ parsed = <<10, 10, "none">>
    /\ moveCalls = 1
    /\ mret = "true"
    /\ position = <<Px(11), Px(10)>>
    /\ position # <<Px(10), Px(10)>>
    /\ WithinTolerance(position, 10, 10)
    /\ retry_attempts = 1

(***************************************************************************)
(*               Properties of Mouse.move_to and Mouse.click               *)
(***************************************************************************)

\* p lies in [0, width] x [0, height]
WithinScreen(p) ==
    /\ 0 <= p[1] /\ p[1] <= Px(Width)
    /\ 0 <= p[2] /\ p[2] <= Px(Height)

\* the target of call c, clamped to the screen
ClampedTarget(c) ==
    <<Px(IF c.x < 0 THEN 0 ELSE IF c.x > Width THEN Width ELSE c.x),
      Px(IF c.y < 0 THEN 0 ELSE IF c.y > Height THEN Height ELSE c.y)>>

LastLogged == surface_log[Len(surface_log)]

\* C31: whatever target move_to is called with, every coordinate it hands to
\* the surface's move primitive lies within [0, width] x [0, height] (the
\* starting position being within those bounds), and when move_to returns True
\* the last coordinate handed over, and the tracked position, are the clamped
\* target.
C31_WaypointsWithinScreen ==
    /\ (/\ surface_log # <<>>
        /\ LastLogged[2] = "move"
        /\ script[LastLogged[1]].op = "move_to") => WithinScreen(LastLogged[3])
    /\ (/\ mpc = "ret"
        /\ mret = "true"
        /\ script[callno].op = "move_to") =>
            /\ position = ClampedTarget(script[callno])
            /\ HasPrimitives =>
                   LastLogged = <<callno, "move", ClampedTarget(script[callno])>>

\* move_to(900, 10) returned True with the pointer at (800, 10).
C31_Witness ==
    /\ mpc = "ret"
    /\ mret = "true"
    /\ script[callno] = MoveCall(900, 10)
    /\ surface = "faulty"
    /\ position = <<Px(Width), Px(10)>>
    /\ LastLogged = <<callno, "move", <<Px(Width), Px(10)>>>>
    /\ Len(surface_log) = Steps + 1

\* The surface accepted a call of `primitive` during the Mouse call in progress.
ActuatedBy(primitive) ==
    /\ surface_log # <<>>
    /\ LastLogged[1] = callno
    /\ LastLogged[2] = primitive

\* presses asked of click
Requested == IF mdouble THEN 2 ELSE 1

\* C32 as stated: move_to returns True only after the surface's move primitive
\* was called and succeeded, click returns True only after its click primitive
\* was called and succeeded once per requested click; neither returns True
\* without a primitive having been called.
C32_Original ==
    (mpc = "ret" /\ mret = "true") =>
        IF script[callno].op = "move_to"
        THEN ActuatedBy("move")
        ELSE ActuatedBy("click") /\ mpresses = Requested

\* click(double=True) on a target without click_mouse: True is returned, and
\* the target was never called.
C32_TrueWithoutActuation ==
    /\ mpc = "ret"
    /\ mret = "true"
    /\ surface = "bare"
    /\ script[callno] = DoubleClickCall
    /\ script[1] = DirectMove(900, -3)
    /\ position = <<Px(Width), 0>>
    /\ surface_log = <<>>
    /\ ext_calls = {}
    /\ clicks = 0

(***************************************************************************)
(*               Properties of BrowserController.click_at                  *)
(***************************************************************************)

LastClick == click_log[Len(click_log)]

\* C33 as stated: click_at(x, y) clicks only with the pointer at (x, y); when
\* (x, y) is outside the viewport, so that move_mouse_to does not move, no
\* click is made where the pointer was before.
C33_Original == click_log # <<>> => LastClick[2] = LastClick[1]

\* click_at(400, 300), then click_at(801, 10): the second click was made with
\* the pointer still at (400, 300).
C33_ClickedWhereItWas ==
    /\ Len(click_log) = 2
    /\ click_log[1] = <<<<400, 300>>, <<400, 300>>>>
    /\ click_log[2] = <<<<801, 10>>, <<400, 300>>>>
    /\ ~InViewport(801, 10)
    /\ last_mouse_position = <<400, 300>>
    /\ pointer = <<400, 300>>

(***************************************************************************)
(*               Properties of ErrorController.handle_error                *)
(***************************************************************************)

RECURSIVE Power(_, _)
Power(b, n) == IF n = 0 THEN 1 ELSE b * Power(b, n - 1)

\* initial_retry_delay * backoff_factor^(k - 1)
DelayBefore(k) == ec.initial_retry_delay * Power(ec.backoff_factor, k - 1)

AllRaised(s) == \A i \in 1..Len(s) : s[i] = "raised"

\* C34: handle_error calls retry_callback at most max_retries times, sleeps
\* initial_retry_delay * backoff_factor^(k-1) before the k-th call, returns
\* True right after the first call that does not raise, and returns False
\* when every call raised or when no callback was given; without a callback
\* it neither sleeps nor retries.
C34_BoundedRetriesWithBackoff ==
    /\ Len(houtcomes) <= ec.max_retries
    /\ Len(hsleeps) = Len(houtcomes) + (IF hpc = "callback" THEN 1 ELSE 0)
    /\ hsleeps # <<>> => hsleeps[Len(hsleeps)] = DelayBefore(Len(hsleeps))
    /\ (houtcomes # <<>> /\ houtcomes[Len(houtcomes)] = "returned") =>
           hpc = "done" /\ hret = "true"
    /\ (hpc = "done" /\ hret = "true") =>
           /\ houtcomes[Len(houtcomes)] = "returned"
           /\ AllRaised(SubSeq(houtcomes, 1, Len(houtcomes) - 1))
    /\ (hpc = "done" /\ hret = "false") =>
           IF hcallback
           THEN Len(houtcomes) = ec.max_retries /\ AllRaised(houtcomes)
           ELSE hsleeps = <<>> /\ houtcomes = <<>>
    /\ hpc = "done" => hret \in {"true", "false"}

\* The third call succeeded after sleeps of 2, 6 and 18.
C34_Witness ==
    /\ hpc = "done"
    /\ hret = "true"
    /\ ec = [max_retries |-> 3, initial_retry_delay |-> 2, backoff_factor |-> 3]
    /\ houtcomes = <<"raised", "raised", "returned">>
    /\ hsleeps = <<2, 6, 18>>

(***************************************************************************)
(*                        Properties of retry_task                         *)
(***************************************************************************)

Failures(s) == Cardinality({i \in 1..Len(s) : s[i] = "false"})

\* C35 as stated: when every regenerated command fails, retry_task gives up
\* after a bounded number of attempts (the controller's maximum attempt count)
\* instead of calling itself without limit, and history has grown by one
\* failed position per failed attempt.
C35_Original ==
    /\ Len(rt_attempts) <= max_regeneration_attempts
    /\ rt_pc # "raised"
    /\ Len(rt_history) = 2 + Failures(rt_attempts)

\* Every attempt failed: retry_task called itself until the recursion limit
\* and ended with RecursionError.
C35_RecursionToTheLimit ==
    /\ rt_pc = "raised"
    /\ Len(rt_attempts) = RecursionLimit
    /\ Failures(rt_attempts) = RecursionLimit
    /\ Len(rt_history) = 2 + RecursionLimit

(***************************************************************************)
(*                   Properties of TaskManager.run_tasks                   *)
(***************************************************************************)

\* C36: run_tasks takes the tasks strictly in list order: current_task_index
\* never decreases and changes only by one, in the very step in which
\* verify_task_completion passed for the current task right after its action
\* had executed successfully, the task being marked completed; and no task's
\* action is executed before every task ahead of it in the list is marked
\* completed.
C36_TasksInListOrder ==
    [][/\ current_task_index' >= current_task_index
       /\ current_task_index' # current_task_index =>
              /\ current_task_index' = current_task_index + 1
              /\ Len(tm_log') >= 2
              /\ tm_log'[Len(tm_log')] = <<current_task_index + 1, "verify", TRUE>>
              /\ tm_log'[Len(tm_log') - 1] =
                     <<current_task_index + 1, "execute", TRUE>>
              /\ tm_completed'[current_task_index + 1]
       /\ (Len(tm_log') > Len(tm_log) /\ tm_log'[Len(tm_log')][2] = "execute") =>
              \A k \in 1..(tm_log'[Len(tm_log')][1] - 1) : tm_completed[k]
      ]_vars

\* Two tasks, the first one's action failed once: both completed, in order.
C36_Witness ==
    /\ tm_ret = "true"
    /\ current_task_index = 2
    /\ tm_completed = <<TRUE, TRUE>>
    /\ tm_log = <<<<1, "execute", FALSE>>, <<1, "execute", TRUE>>,
                  <<1, "verify", TRUE>>, <<2, "execute", TRUE>>,
                  <<2, "verify", TRUE>>>>

\* C37: within one run_tasks call each task's action is executed at most
\* max_retries times; False is returned when the current task has used
\* max_retries attempts without a verified completion, and then no later task
\* was attempted; True is returned only when every task is marked completed.
C37_AttemptsBounded ==
    /\ tm_pc \in {"inner", "verify", "count", "after"} => tm_retries <= tm_max
    /\ \A i \in 1..Len(tm_completed) : tm_executions[i] <= tm_max
    /\ tm_ret = "false" =>
           /\ ~tm_completed[current_task_index + 1]
           /\ tm_retries = tm_max
           /\ tm_executions[current_task_index + 1] = tm_max
           /\ \A j \in (current_task_index + 2)..Len(tm_completed) :
                  tm_executions[j] = 0 /\ ~tm_completed[j]
    /\ tm_ret = "true" =>
           /\ current_task_index = Len(tm_completed)
           /\ \A i \in 1..Len(tm_completed) : tm_completed[i]

\* The second of two tasks used its three attempts: False is returned.
C37_Witness ==
    /\ tm_ret = "false"
    /\ tm_max = 3
    /\ tm_completed = <<TRUE, FALSE>>
    /\ current_task_index = 1
    /\ tm_executions = <<1, 3>>
    /\ tm_runs = 1

(***************************************************************************)
(*                    Properties of the running average                    *)
(***************************************************************************)

RECURSIVE SumOf(_)
SumOf(s) == IF s = <<>> THEN 0 ELSE s[1] + SumOf(Tail(s))

\* C38 as stated: after n tasks have been timed, average_processing_time is
\* the arithmetic mean (t1 + ... + tn) / n of their processing times.
C38_Original ==
    timed # <<>> => average_processing_time = Frac(SumOf(timed), Len(timed))

\* Two tasks took 1 s and 5 s, none failed: the average is 5, not 3.
C38_LastTimeOnly ==
    /\ timed = <<1, 5>>
    /\ tasks_processed = 2
    /\ tasks_failed = 0
    /\ average_processing_time = Whole(5)
    /\ Frac(SumOf(timed), Len(timed)) = Whole(3)

(***************************************************************************)
(*                        Properties of Mouse.stop                         *)
(***************************************************************************)

\* C39: once stop() has cleared self.active the keep-alive thread begins at
\* most one more target.move_mouse call, then ends, and stop() returns; as
\* long as self.active is set the thread has not ended, whatever the surface
\* raised.
C39_StopEndsKeepAlive ==
    /\ [](after_stop <= 1)
    /\ [](active => kpc # "done")
    /\ [](spc = "returned" => kpc = "done")
    /\ (~active ~> (kpc = "done" /\ spc = "returned"))

\* stop() cleared the flag between the loop test and the call: the thread made
\* that one call, ended, and stop() has returned.
C39_Witness ==
    /\ ~active
    /\ after_stop = 1
    /\ kpc = "done"
    /\ spc = "returned"
    /\ pings = MaxPings

====
